---------------------------- MODULE Spec2Model ----------------------------
(***************************************************************************)
(* libnu: nu_sort (introsort with an explicit work-stack), src/sort.c.     *)
(*                                                                         *)
(* A call of nu_sort is a small state machine: parameter validation, the   *)
(* driver loop of introsort_impl popping one frame per iteration, and the  *)
(* insertion sort whose temporary buffer is taken from NU_MALLOC.  The     *)
(* array is a function 0..n-1 -> element, an element is the sequence of    *)
(* its bytes <<key, tag>>; the comparators look at the key byte only, so   *)
(* two elements can compare equal and still differ in their bytes.         *)
(***************************************************************************)
EXTENDS Integers, Sequences, FiniteSets, TLC

(***************************************************************************)
(* Bounds of the model.                                                    *)
(***************************************************************************)
MaxN == 24
MaxMod == 3
MaxMul == 3
MaxSmallCap == 3
MaxFails == 3
MaxRounds == 2
MaxRange == 6
MaxCapacity == 2
MaxSize == 2
MaxMarks == 2
MaxRegions == 2
MaxSites == 2
WordBits == 16
ElemSize == 2

(***************************************************************************)
(* Program constants.                                                      *)
(***************************************************************************)
NU_QUICKSORT_STACK_SIZE == 64
TEST_FLAGS == 8
SmallRange == 16
RefN == 100

Calls == {1, 2}

VARIABLES
  cap,          \* NU_QUICKSORT_STACK_SIZE of the build
  pc,           \* per call: "idle", "call", "loop", "ins", "done";
                \* "partition", "partitioned" for a call of partition alone
  base,         \* per call: "null" or "ptr"
  compar,       \* per call: "null", "asc" or "desc"
  size,         \* per call: element size argument
  nmemb,        \* per call: element count argument
  arr,          \* per call: the caller's array
  depth_limit,  \* per call: local of nu_sort
  stack,        \* per storage slot: frames stack[0..top-1]
  frame,        \* per call: the frame being processed by insertion_sort
  i,            \* per call: loop index of insertion_sort
  key,          \* per call: the temporary buffer (NoBuf when none)
  scan,         \* per call: loop index j of partition
  hstart,       \* per call: loop index start of heapsort
  hend,         \* per call: loop index end of heapsort
  hist          \* per call: record of observations (not program state)

VARIABLES
  arena,        \* struct nu_arena: buffer, capacity, used
  ret,          \* value returned by the last nu_arena_alloc
  marks,        \* the nu_arena_mark values the caller holds
  regions,      \* blocks handed out since the last restore or reset
  acall         \* the last arena call and its arguments (observation)

sortVars == <<cap, pc, base, compar, size, nmemb, arr, depth_limit, stack,
              frame, i, key, scan, hstart, hend, hist>>

VARIABLES
  make_err,     \* static nu_error_t _err of _nu_make_error_impl
  err_copy,     \* static nu_error_t _err_copy of each TRY site
  held,         \* a result the caller keeps, with the error as it was made
  tryfn,        \* a function whose body is a sequence of TRY statements
  deferfn       \* a function written DEFER { } FINALLY { } RETURN

arenaVars == <<arena, ret, marks, regions, acall>>

errorVars == <<make_err, err_copy, held, tryfn, deferfn>>

vars == <<sortVars, arenaVars, errorVars>>

NoBuf == <<"nobuf">>
Uninit == <<"uninit">>
NoFrame == [low |-> 0, high |-> 0, depth |-> 0]

(***************************************************************************)
(* size_t arithmetic.                                                      *)
(***************************************************************************)
SIZE_MAX == 2 ^ WordBits - 1
Wrap(x) == x % (SIZE_MAX + 1)

(***************************************************************************)
(* The comparators of the callers: three-way comparison of the key byte.   *)
(***************************************************************************)
compare_ints(ia, ib) == IF ia > ib THEN 1 ELSE IF ia < ib THEN -1 ELSE 0

Compare(order, ea, eb) ==
  IF order = "asc" THEN compare_ints(ea[1], eb[1]) ELSE compare_ints(eb[1], ea[1])

RECURSIVE FloorLog2Loop(_, _)
FloorLog2Loop(n, log) ==
  IF n \div 2 # 0 THEN FloorLog2Loop(n \div 2, log + 1) ELSE log

floor_log2(n) == FloorLog2Loop(n, 0)

(* Faulty variant: the second element is overwritten, the first is lost.   *)
swap_bytes_one_way(a, x, y) == [a EXCEPT ![x] = a[y]]

swap_bytes(a, x, y) == [a EXCEPT ![x] = a[y], ![y] = a[x]]

(***************************************************************************)
(* Sequencing: Then(v, F) is F applied to the state v, v computed first.   *)
(***************************************************************************)
Then(v, F(_)) == CHOOSE r \in {F(done) : done \in {v}} : TRUE

(***************************************************************************)
(* insertion_sort: the inner while loop shifts the preceding elements      *)
(* that are strictly greater than the key one slot right, then the key is  *)
(* written at the slot left free.                                          *)
(***************************************************************************)
(* Faulty variant: elements equal to the key are shifted as well.          *)
RECURSIVE ShiftLoopNotStrict(_, _, _, _, _)
ShiftLoopNotStrict(a, j, low, k, cmp) ==
  IF j > low /\ Compare(cmp, a[j - 1], k) >= 0
    THEN Then([a EXCEPT ![j] = a[j - 1]],
              LAMBDA shifted : ShiftLoopNotStrict(shifted, j - 1, low, k, cmp))
    ELSE [a EXCEPT ![j] = k]

RECURSIVE ShiftLoop(_, _, _, _, _)
ShiftLoop(a, j, low, k, cmp) ==
  IF j > low /\ Compare(cmp, a[j - 1], k) > 0
    THEN Then([a EXCEPT ![j] = a[j - 1]],
              LAMBDA shifted : ShiftLoop(shifted, j - 1, low, k, cmp))
    ELSE [a EXCEPT ![j] = k]

(***************************************************************************)
(* heapify: sift the node start down inside the heap hb+0 .. hb+end.       *)
(***************************************************************************)
(* Faulty variant: the second child is never looked at.                    *)
RECURSIVE heapify_first_child(_, _, _, _, _)
heapify_first_child(a, hb, root, end, cmp) ==
  IF Wrap(2 * root + 1) <= end
    THEN LET child == Wrap(2 * root + 1)
         IN  IF Compare(cmp, a[hb + root], a[hb + child]) < 0
               THEN Then(swap_bytes(a, hb + root, hb + child),
                         LAMBDA swapped :
                           heapify_first_child(swapped, hb, child, end, cmp))
               ELSE a
    ELSE a

RECURSIVE heapify(_, _, _, _, _)
heapify(a, hb, root, end, cmp) ==
  IF Wrap(2 * root + 1) <= end
    THEN LET child == Wrap(2 * root + 1)
             s1 == IF Compare(cmp, a[hb + root], a[hb + child]) < 0
                     THEN child ELSE root
             s2 == IF Wrap(child + 1) <= end
                       /\ Compare(cmp, a[hb + s1], a[hb + Wrap(child + 1)]) < 0
                     THEN Wrap(child + 1) ELSE s1
         IN  Then(s2, LAMBDA swap_idx :
               IF swap_idx = root
                 THEN a
                 ELSE Then(swap_bytes(a, hb + root, hb + swap_idx),
                           LAMBDA swapped : heapify(swapped, hb, swap_idx, end, cmp)))
    ELSE a

(***************************************************************************)
(* for loops.  ForUp runs Body for the indices from, from+1, .., to and    *)
(* ForDown for from, from-1, .., to, each iteration on the state left by   *)
(* the one before: the index range is halved and the second half runs on   *)
(* the state left by the first half.                                       *)
(***************************************************************************)
RECURSIVE ForUp(_, _, _, _)
ForUp(Body(_, _), st, from, to) ==
  IF from > to
    THEN st
    ELSE IF from = to
      THEN Body(st, from)
      ELSE Then(from + (to - from) \div 2, LAMBDA mid :
             Then(ForUp(Body, st, from, mid),
                  LAMBDA half : ForUp(Body, half, mid + 1, to)))

RECURSIVE ForDown(_, _, _, _)
ForDown(Body(_, _), st, from, to) ==
  IF from < to
    THEN st
    ELSE IF from = to
      THEN Body(st, from)
      ELSE Then(to + (from - to + 1) \div 2, LAMBDA mid :
             Then(ForDown(Body, st, from, mid),
                  LAMBDA half : ForDown(Body, half, mid - 1, to)))

(***************************************************************************)
(* heapsort: start counts down from (count - 2) / 2 and the loop ends when *)
(* start, decremented below 0, has wrapped to SIZE_MAX; end counts down    *)
(* from count - 1 to 1.                                                    *)
(***************************************************************************)
BuildHeap(a, low, count, cmp) ==
  IF Wrap(count - 2) \div 2 # SIZE_MAX
    THEN ForDown(LAMBDA h, start : heapify(h, low, start, Wrap(count - 1), cmp),
                 a, Wrap(count - 2) \div 2, 0)
    ELSE a

ExtractAll(a, low, count, cmp) ==
  ForDown(LAMBDA h, end :
            Then(swap_bytes(h, low, low + end),
                 LAMBDA swapped : heapify(swapped, low, 0, end - 1, cmp)),
          a, Wrap(count - 1), 1)

heapsort(a, low, high, cmp) ==
  Then(BuildHeap(a, low, Wrap(high - low + 1), cmp),
       LAMBDA built : ExtractAll(built, low, Wrap(high - low + 1), cmp))

(***************************************************************************)
(* partition: Lomuto scheme, the midpoint element moved to high first.     *)
(* The loop state is the array and the store index i.                      *)
(***************************************************************************)
(* Faulty variant: the comparison against the pivot is inverted.           *)
PartitionStepInverted(st, j, high, cmp) ==
  IF Compare(cmp, st.a[j], st.a[high]) >= 0
    THEN [a |-> swap_bytes(st.a, st.i, j), i |-> st.i + 1]
    ELSE st

(* Faulty variant: elements equal to the pivot stay on the greater side.   *)
PartitionStepStrict(st, j, high, cmp) ==
  IF Compare(cmp, st.a[j], st.a[high]) < 0
    THEN [a |-> swap_bytes(st.a, st.i, j), i |-> st.i + 1]
    ELSE st

PartitionStep(st, j, high, cmp) ==
  IF Compare(cmp, st.a[j], st.a[high]) <= 0
    THEN [a |-> swap_bytes(st.a, st.i, j), i |-> st.i + 1]
    ELSE st

(* Faulty variant: the pivot is left at high, the final swap is missing.   *)
partition_without_final_swap(a, low, high, cmp) ==
  LET pivot_idx == low + (high - low) \div 2
  IN  Then(ForUp(LAMBDA st, j : PartitionStep(st, j, high, cmp),
                 [a |-> swap_bytes(a, pivot_idx, high), i |-> low],
                 low, high - 1),
           LAMBDA r : [a |-> r.a, pivot |-> r.i])

partition(a, low, high, cmp) ==
  LET pivot_idx == low + (high - low) \div 2
  IN  Then(ForUp(LAMBDA st, j : PartitionStep(st, j, high, cmp),
                 [a |-> swap_bytes(a, pivot_idx, high), i |-> low],
                 low, high - 1),
           LAMBDA r : [a |-> swap_bytes(r.a, r.i, high), pivot |-> r.i])

(***************************************************************************)
(* The arrays handed to nu_sort.  A pattern gives the key of every index;  *)
(* the tag byte is the original index (all elements differ in their bytes) *)
(* or 0 (elements with equal keys are identical).  The capacity of the     *)
(* work-stack only matters to arrays that are partitioned, so the shorter  *)
(* arrays are run with the default capacity alone.                         *)
(***************************************************************************)
Scramble == MaxN + 7

Patterns ==
  [kind : {"desc", "swap"}, m : {1}, k : {1}]
    \cup [kind : {"mod"}, m : 1..MaxMul, k : (1..MaxMod) \cup {Scramble}]

KeyAt(pat, count, at) ==
  CASE pat.kind = "desc" -> count - at
    [] pat.kind = "swap" -> IF at % 2 = 1 THEN at - 1
                            ELSE IF at + 1 < count THEN at + 1 ELSE at
    [] OTHER -> (at * pat.m) % pat.k

Element(keyByte, tagByte) ==
  [b \in 1..ElemSize |-> IF b = 1 THEN keyByte ELSE IF b = 2 THEN tagByte ELSE 0]

MakeArray(p, n, tagged) ==
  [idx \in 0..(n - 1) |-> Element(KeyAt(p, n, idx), IF tagged THEN idx ELSE 0)]

Caps == (1..MaxSmallCap) \cup {TEST_FLAGS, NU_QUICKSORT_STACK_SIZE}

ValidParams ==
  [base : {"ptr"}, compar : {"asc", "desc"}, size : {ElemSize},
   nmemb : 0..MaxN, pat : Patterns, tagged : BOOLEAN]

InvalidParams ==
  {q \in [base : {"ptr", "null"}, compar : {"asc", "null"}, size : {0, ElemSize},
          nmemb : {0, 1, 2, SmallRange}, pat : [kind : {"desc"}, m : {1}, k : {1}],
          tagged : {TRUE}] :
     q.base = "null" \/ q.compar = "null" \/ q.size = 0}

RefParams ==
  [base |-> "ptr", compar |-> "asc", size |-> ElemSize, nmemb |-> RefN,
   pat |-> [kind |-> "desc", m |-> 1, k |-> 1], tagged |-> FALSE]

(* The permutation of test_depth_limit_protection (0..n-1 with every pair  *)
(* of neighbours exchanged), at the size of the other reference run.       *)
RefSwapParams ==
  [base |-> "ptr", compar |-> "asc", size |-> ElemSize, nmemb |-> RefN,
   pat |-> [kind |-> "swap", m |-> 1, k |-> 1], tagged |-> FALSE]

NewHist(a, r, f) ==
  [input |-> a, round |-> r, first |-> f, fails |-> 0, allocs |-> 0,
   frees |-> 0, pushed |-> 0, compared |-> FALSE, capHeaps |-> 0,
   depthHeaps |-> 0, parts |-> 0, failed |-> {}]

IdleParams ==
  [base |-> "ptr", compar |-> "asc", size |-> ElemSize, nmemb |-> 0,
   pat |-> [kind |-> "desc", m |-> 1, k |-> 1], tagged |-> FALSE]

(***************************************************************************)
(* The arena while no arena call is made.                                  *)
(***************************************************************************)
NULL == 0
MESSAGE_SIZE == 128
NU_OK == 0
NU_ERR_GENERIC == 1
NU_ERR_IO == 7

NoCall ==
  [op |-> "none", ap |-> "null", size |-> 0, alignment |-> 0,
   mark |-> [position |-> 0, taken |-> 0, from |-> "null"], before |-> 0]

ArenaIdle ==
  /\ arena = [buffer |-> NULL, capacity |-> 0, used |-> 0]
  /\ ret = NULL
  /\ marks = {}
  /\ regions = << >>
  /\ acall = NoCall

(***************************************************************************)
(* Values of src/error.h.  An error is the struct nu_error_t (the file     *)
(* name is left out), a message is given by its length, a pointer names    *)
(* the storage it points to, a result is the struct nu_result_t.           *)
(***************************************************************************)
NoMessage == [len |-> 0]

ZeroError == [code |-> 0, line |-> 0, message |-> NoMessage]

ValuePtr(value) == [store |-> "value", at |-> value]

MakePtr == [store |-> "_err", at |-> 0]

CopyPtr(site) == [store |-> "_err_copy", at |-> site]

nu_ok(value) == [is_err |-> FALSE, ptr |-> ValuePtr(value)]

nu_err(error) == [is_err |-> TRUE, ptr |-> error]

OK(value) == nu_ok(value)

(* The TRY statements of a function, as in try_test_function.              *)
TrySites == {1, 2}

(* The statements of a DEFER body, as in process_files.                    *)
BodySites == {1, 2, 3, 4}

NotRaised == [is |-> FALSE, at |-> 0, err |-> ZeroError]

IdleTry == [pc |-> 0, ran |-> 0, raised |-> NotRaised, res |-> OK(NULL)]

NotHeld == [is |-> FALSE, res |-> OK(NULL), made |-> ZeroError]

NotSet == [kind |-> "none", at |-> 0, err |-> ZeroError, value |-> NULL]

IdleDefer ==
  [pc |-> "idle", at |-> 0, result |-> OK(NULL), cleanups |-> 0, ran |-> 0,
   set |-> NotSet, returned |-> ZeroError]

ErrorIdle ==
  /\ make_err = ZeroError
  /\ err_copy = [site \in TrySites |-> ZeroError]
  /\ held = NotHeld
  /\ tryfn = IdleTry
  /\ deferfn = IdleDefer

SortWith(q, cp) ==
  /\ cap = cp
  /\ pc = [c \in Calls |-> IF q[c] = IdleParams THEN "idle" ELSE "call"]
  /\ base = [c \in Calls |-> q[c].base]
  /\ compar = [c \in Calls |-> q[c].compar]
  /\ size = [c \in Calls |-> q[c].size]
  /\ nmemb = [c \in Calls |-> q[c].nmemb]
  /\ arr = [c \in Calls |-> MakeArray(q[c].pat, q[c].nmemb, q[c].tagged)]
  /\ depth_limit = [c \in Calls |-> 0]
  /\ stack = [c \in Calls |-> << >>]
  /\ frame = [c \in Calls |-> NoFrame]
  /\ i = [c \in Calls |-> 0]
  /\ key = [c \in Calls |-> NoBuf]
  /\ scan = [c \in Calls |-> 0]
  /\ hstart = [c \in Calls |-> 0]
  /\ hend = [c \in Calls |-> 0]
  /\ hist = [c \in Calls |->
               NewHist(MakeArray(q[c].pat, q[c].nmemb, q[c].tagged), 1, << >>)]

InitWith(q, cp) == ArenaIdle /\ ErrorIdle /\ SortWith(q, cp)

Init ==
  \/ \E p1 \in (ValidParams \ {IdleParams}) \cup InvalidParams, cp \in Caps :
       /\ p1.nmemb < SmallRange => cp = NU_QUICKSORT_STACK_SIZE
       /\ InitWith(<<p1, IdleParams>>, cp)
  \/ InitWith(<<RefParams, IdleParams>>, TEST_FLAGS)
  \/ \E cp \in {TEST_FLAGS, NU_QUICKSORT_STACK_SIZE} :
       InitWith(<<RefSwapParams, IdleParams>>, cp)

(***************************************************************************)
(* Automatic storage: the work-stack and top of introsort_impl live in the *)
(* activation of the call.                                                 *)
(***************************************************************************)
Local(c) == c

top(c) == Len(stack[Local(c)])
Top(c) == stack[Local(c)][top(c)]
Pop(c) == SubSeq(stack[Local(c)], 1, top(c) - 1)
Mk(l, h, d) == [low |-> l, high |-> h, depth |-> d]
Note(c, f, v) == [hist EXCEPT ![c][f] = v]

(***************************************************************************)
(* depth_limit is a local of nu_sort handed by value to introsort_impl:    *)
(* every call reads the limit it computed itself.                          *)
(***************************************************************************)
(* Faulty variant: one depth limit in static storage for all calls.        *)
ByValueShared(c) == 1

ByValue(c) == c

(***************************************************************************)
(* nu_sort: parameter validation, depth limit, first frame.                *)
(***************************************************************************)
(* Faulty variant: an element count of 1 is let through.                   *)
InvalidBelowOne(c) ==
  base[c] = "null" \/ compar[c] = "null" \/ nmemb[c] < 1 \/ size[c] = 0

Invalid(c) ==
  base[c] = "null" \/ compar[c] = "null" \/ nmemb[c] <= 1 \/ size[c] = 0

NuSortReject(c) ==
  /\ pc[c] = "call"
  /\ Invalid(c)
  /\ pc' = [pc EXCEPT ![c] = "done"]
  /\ UNCHANGED <<arenaVars, errorVars, scan, hstart, hend, cap, base, compar, size, nmemb, arr, depth_limit, stack,
                 frame, i, key, hist>>

NuSortEnter(c) ==
  /\ pc[c] = "call"
  /\ ~Invalid(c)
  /\ depth_limit' = [depth_limit EXCEPT ![ByValue(c)] = 2 * floor_log2(nmemb[c])]
  /\ stack' = [stack EXCEPT ![Local(c)] = <<Mk(0, nmemb[c] - 1, 0)>>]
  /\ hist' = Note(c, "pushed", hist[c].pushed + 1)
  /\ pc' = [pc EXCEPT ![c] = "loop"]
  /\ UNCHANGED <<arenaVars, errorVars, scan, hstart, hend, cap, base, compar, size, nmemb, arr, frame, i, key>>

(***************************************************************************)
(* introsort_impl: one iteration of while (top > 0) per action.            *)
(***************************************************************************)
LoopExit(c) ==
  /\ pc[c] = "loop"
  /\ top(c) = 0
  /\ pc' = [pc EXCEPT ![c] = "done"]
  /\ hist' = IF hist[c].round = 1 THEN Note(c, "first", arr[c]) ELSE hist
  /\ UNCHANGED <<arenaVars, errorVars, scan, hstart, hend, cap, base, compar, size, nmemb, arr, depth_limit, stack,
                 frame, i, key>>

Popped(c) == pc[c] = "loop" /\ top(c) > 0

FrameLen(f) == f.high - f.low + 1

(* Faulty variant: a range of exactly 16 elements counts as small.         *)
SmallFrameInclusive(f) == FrameLen(f) <= SmallRange

SmallFrame(f) == FrameLen(f) < SmallRange

(* Faulty variant: the empty frame stays on the work-stack.                *)
PopDiscardKeepsFrame(c) ==
  /\ Popped(c)
  /\ Top(c).low >= Top(c).high
  /\ UNCHANGED vars

PopDiscard(c) ==
  /\ Popped(c)
  /\ Top(c).low >= Top(c).high
  /\ stack' = [stack EXCEPT ![Local(c)] = Pop(c)]
  /\ UNCHANGED <<arenaVars, errorVars, scan, hstart, hend, cap, pc, base, compar, size, nmemb, arr, depth_limit,
                 frame, i, key, hist>>

(* Faulty variant: a failed allocation drops every pending frame.          *)
InsertionAllocFailAborts(c) ==
  /\ Popped(c)
  /\ Top(c).low < Top(c).high
  /\ SmallFrame(Top(c))
  /\ hist[c].fails < MaxFails
  /\ stack' = [stack EXCEPT ![Local(c)] = << >>]
  /\ hist' = [hist EXCEPT ![c].fails = hist[c].fails + 1,
                          ![c].failed = hist[c].failed \cup {Top(c)}]
  /\ UNCHANGED <<arenaVars, errorVars, scan, hstart, hend, cap, pc, base, compar, size, nmemb, arr, depth_limit,
                 frame, i, key>>

InsertionAllocFail(c) ==
  /\ Popped(c)
  /\ Top(c).low < Top(c).high
  /\ SmallFrame(Top(c))
  /\ hist[c].fails < MaxFails
  /\ stack' = [stack EXCEPT ![Local(c)] = Pop(c)]
  /\ hist' = [hist EXCEPT ![c].fails = hist[c].fails + 1,
                          ![c].failed = hist[c].failed \cup {Top(c)}]
  /\ UNCHANGED <<arenaVars, errorVars, scan, hstart, hend, cap, pc, base, compar, size, nmemb, arr, depth_limit,
                 frame, i, key>>

InsertionAllocOk(c) ==
  /\ Popped(c)
  /\ Top(c).low < Top(c).high
  /\ SmallFrame(Top(c))
  /\ stack' = [stack EXCEPT ![Local(c)] = Pop(c)]
  /\ frame' = [frame EXCEPT ![c] = Top(c)]
  /\ i' = [i EXCEPT ![c] = Top(c).low + 1]
  /\ key' = [key EXCEPT ![c] = Uninit]
  /\ pc' = [pc EXCEPT ![c] = "ins"]
  /\ hist' = Note(c, "allocs", hist[c].allocs + 1)
  /\ UNCHANGED <<arenaVars, errorVars, scan, hstart, hend, cap, base, compar, size, nmemb, arr, depth_limit>>

InsertionIter(c) ==
  /\ pc[c] = "ins"
  /\ i[c] <= frame[c].high
  /\ key' = [key EXCEPT ![c] = arr[c][i[c]]]
  /\ arr' = [arr EXCEPT ![c] =
               ShiftLoop(arr[c], i[c], frame[c].low, arr[c][i[c]], compar[c])]
  /\ i' = [i EXCEPT ![c] = i[c] + 1]
  /\ hist' = Note(c, "compared", TRUE)
  /\ UNCHANGED <<arenaVars, errorVars, scan, hstart, hend, cap, pc, base, compar, size, nmemb, depth_limit, stack, frame>>

(* Faulty variant: insertion_sort returns without releasing the buffer.    *)
InsertionReturnKeepsBuffer(c) ==
  /\ pc[c] = "ins"
  /\ i[c] > frame[c].high
  /\ pc' = [pc EXCEPT ![c] = "loop"]
  /\ UNCHANGED <<arenaVars, errorVars, scan, hstart, hend, cap, base, compar,
                 size, nmemb, arr, depth_limit, stack, frame, i, key, hist>>

InsertionFree(c) ==
  /\ pc[c] = "ins"
  /\ i[c] > frame[c].high
  /\ key' = [key EXCEPT ![c] = NoBuf]
  /\ pc' = [pc EXCEPT ![c] = "loop"]
  /\ hist' = Note(c, "frees", hist[c].frees + 1)
  /\ UNCHANGED <<arenaVars, errorVars, scan, hstart, hend, cap, base, compar, size, nmemb, arr, depth_limit, stack,
                 frame, i>>

(* Faulty variant: a frame at the limit is still partitioned.              *)
DepthExceeded(c) == Top(c).depth > depth_limit[ByValue(c)]

DepthReached(c) == Top(c).depth >= depth_limit[ByValue(c)]

HeapsortDepth(c) ==
  /\ Popped(c)
  /\ Top(c).low < Top(c).high
  /\ ~SmallFrame(Top(c))
  /\ DepthReached(c)
  /\ stack' = [stack EXCEPT ![Local(c)] = Pop(c)]
  /\ arr' = [arr EXCEPT ![c] = heapsort(arr[c], Top(c).low, Top(c).high, compar[c])]
  /\ hist' = [hist EXCEPT ![c].compared = TRUE,
                          ![c].depthHeaps = hist[c].depthHeaps + 1]
  /\ UNCHANGED <<arenaVars, errorVars, scan, hstart, hend, cap, pc, base, compar, size, nmemb, depth_limit, frame, i, key>>

Partitioned(c) ==
  /\ Popped(c)
  /\ Top(c).low < Top(c).high
  /\ ~SmallFrame(Top(c))
  /\ ~DepthReached(c)

FramesToPush(f, pivot) ==
  (IF pivot > f.low THEN 1 ELSE 0) + (IF pivot < f.high THEN 1 ELSE 0)

(* Faulty variant: the frames about to be pushed are not counted.          *)
StackFullBeforePush(t, n) == t >= cap

(* Faulty variant: the children are given up only when they do not fit.    *)
StackFullExceeds(t, n) == t + n > cap

StackFull(t, n) == t + n >= cap

(* Faulty variant: both children are pushed, empty or not.                 *)
ChildrenUnchecked(f, pivot) ==
  <<Mk(f.low, pivot - 1, f.depth + 1), Mk(pivot + 1, f.high, f.depth + 1)>>

(* Faulty variant: the children keep the depth of their parent.            *)
ChildrenSameDepth(f, pivot) ==
  (IF pivot > f.low THEN <<Mk(f.low, pivot - 1, f.depth)>> ELSE << >>)
    \o (IF pivot < f.high THEN <<Mk(pivot + 1, f.high, f.depth)>> ELSE << >>)

Children(f, pivot) ==
  (IF pivot > f.low THEN <<Mk(f.low, pivot - 1, f.depth + 1)>> ELSE << >>)
    \o (IF pivot < f.high THEN <<Mk(pivot + 1, f.high, f.depth + 1)>> ELSE << >>)

PartitionFallback(c) ==
  /\ Partitioned(c)
  /\ \E r \in {partition(arr[c], Top(c).low, Top(c).high, compar[c])} :
       /\ StackFull(top(c) - 1, FramesToPush(Top(c), r.pivot))
       /\ arr' = [arr EXCEPT ![c] =
                    heapsort(r.a, Top(c).low, Top(c).high, compar[c])]
  /\ stack' = [stack EXCEPT ![Local(c)] = Pop(c)]
  /\ hist' = [hist EXCEPT ![c].compared = TRUE,
                          ![c].parts = hist[c].parts + 1,
                          ![c].capHeaps = hist[c].capHeaps + 1]
  /\ UNCHANGED <<arenaVars, errorVars, scan, hstart, hend, cap, pc, base, compar, size, nmemb, depth_limit, frame, i, key>>

PartitionPush(c) ==
  /\ Partitioned(c)
  /\ \E r \in {partition(arr[c], Top(c).low, Top(c).high, compar[c])} :
       /\ ~StackFull(top(c) - 1, FramesToPush(Top(c), r.pivot))
       /\ arr' = [arr EXCEPT ![c] = r.a]
       /\ stack' = [stack EXCEPT ![Local(c)] = Pop(c) \o Children(Top(c), r.pivot)]
       /\ hist' = [hist EXCEPT ![c].compared = TRUE,
                               ![c].parts = hist[c].parts + 1,
                               ![c].pushed =
                                 hist[c].pushed + FramesToPush(Top(c), r.pivot)]
  /\ UNCHANGED <<arenaVars, errorVars, scan, hstart, hend, cap, pc, base, compar, size, nmemb, depth_limit, frame, i, key>>

(***************************************************************************)
(* The caller sorts the same array again (the tests call nu_sort on one    *)
(* array several times in a row), after a call whose allocations all       *)
(* succeeded.                                                              *)
(***************************************************************************)
Again(c) ==
  /\ pc[c] = "done"
  /\ hist[c].round < MaxRounds
  /\ hist[c].fails = 0
  /\ ~Invalid(c)
  /\ pc' = [pc EXCEPT ![c] = "call"]
  /\ hist' = [hist EXCEPT ![c] = NewHist(arr[c], hist[c].round + 1, hist[c].first)]
  /\ UNCHANGED <<arenaVars, errorVars, scan, hstart, hend, cap, base, compar, size, nmemb, arr, depth_limit, stack,
                 frame, i, key>>

Next ==
  \E c \in Calls :
    \/ NuSortReject(c)
    \/ NuSortEnter(c)
    \/ LoopExit(c)
    \/ PopDiscard(c)
    \/ InsertionAllocFail(c)
    \/ InsertionAllocOk(c)
    \/ InsertionIter(c)
    \/ InsertionFree(c)
    \/ HeapsortDepth(c)
    \/ PartitionFallback(c)
    \/ PartitionPush(c)
    \/ Again(c)

Spec == Init /\ [][Next]_vars

(***************************************************************************)
(* partition called alone on a range [low, high] of an array: frame holds  *)
(* the range, i receives the returned index.                               *)
(***************************************************************************)
PartitionParams ==
  {q \in ValidParams : q.nmemb \in 1..MaxRange /\ q.tagged}

PartitionInit ==
  \E q \in PartitionParams :
    \E low \in 0..(q.nmemb - 1) :
      \E high \in low..(q.nmemb - 1) :
        /\ ArenaIdle
        /\ ErrorIdle
        /\ cap = NU_QUICKSORT_STACK_SIZE
        /\ pc = <<"partition", "idle">>
        /\ base = <<q.base, IdleParams.base>>
        /\ compar = <<q.compar, IdleParams.compar>>
        /\ size = <<q.size, IdleParams.size>>
        /\ nmemb = <<q.nmemb, IdleParams.nmemb>>
        /\ arr = <<MakeArray(q.pat, q.nmemb, q.tagged), << >> >>
        /\ depth_limit = [c \in Calls |-> 0]
        /\ stack = [c \in Calls |-> << >>]
        /\ frame = <<Mk(low, high, 0), NoFrame>>
        /\ i = [c \in Calls |-> 0]
        /\ key = [c \in Calls |-> NoBuf]
        /\ scan = [c \in Calls |-> 0]
        /\ hstart = [c \in Calls |-> 0]
        /\ hend = [c \in Calls |-> 0]
        /\ hist = <<NewHist(MakeArray(q.pat, q.nmemb, q.tagged), 1, << >>),
                    NewHist(<< >>, 1, << >>)>>

PartitionCall(c) ==
  /\ pc[c] = "partition"
  /\ \E r \in {partition(arr[c], frame[c].low, frame[c].high, compar[c])} :
       /\ arr' = [arr EXCEPT ![c] = r.a]
       /\ i' = [i EXCEPT ![c] = r.pivot]
  /\ pc' = [pc EXCEPT ![c] = "partitioned"]
  /\ hist' = [hist EXCEPT ![c].compared = TRUE, ![c].parts = hist[c].parts + 1]
  /\ UNCHANGED <<arenaVars, errorVars, scan, hstart, hend, cap, base, compar, size, nmemb, depth_limit, stack, frame, key>>

PartitionNext == \E c \in Calls : PartitionCall(c)

SpecPartition == PartitionInit /\ [][PartitionNext]_vars

(***************************************************************************)
(* A call run alone from its first statement to its return, every          *)
(* allocation succeeding: insertion_sort, the driver loop of               *)
(* introsort_impl and nu_sort as functions of the array.                   *)
(***************************************************************************)
insertion_sort(a, low, high, cmp) ==
  ForUp(LAMBDA s, at : ShiftLoop(s, at, low, s[at], cmp), a, low + 1, high)

DriverIter(st, limit, cmp) ==
  LET f == st.stack[Len(st.stack)]
      rest == SubSeq(st.stack, 1, Len(st.stack) - 1)
  IN  IF f.low >= f.high
        THEN [a |-> st.a, stack |-> rest]
        ELSE IF SmallFrame(f)
          THEN [a |-> insertion_sort(st.a, f.low, f.high, cmp), stack |-> rest]
          ELSE IF f.depth >= limit
            THEN [a |-> heapsort(st.a, f.low, f.high, cmp), stack |-> rest]
            ELSE Then(partition(st.a, f.low, f.high, cmp), LAMBDA r :
                   IF StackFull(Len(rest), FramesToPush(f, r.pivot))
                     THEN [a |-> heapsort(r.a, f.low, f.high, cmp), stack |-> rest]
                     ELSE [a |-> r.a, stack |-> rest \o Children(f, r.pivot)])

RECURSIVE introsort_impl(_, _, _)
introsort_impl(st, limit, cmp) ==
  IF Len(st.stack) > 0
    THEN Then(DriverIter(st, limit, cmp),
              LAMBDA after : introsort_impl(after, limit, cmp))
    ELSE st.a

nu_sort(a, n, cmp) ==
  introsort_impl([a |-> a, stack |-> <<Mk(0, n - 1, 0)>>], 2 * floor_log2(n), cmp)

(***************************************************************************)
(* Two calls on two arrays, their steps interleaved in every order.        *)
(***************************************************************************)
TwoParams ==
  {q \in ValidParams :
     /\ q.compar = "asc" /\ q.tagged
     /\ \/ q.nmemb \in {1, 2} /\ q.pat.kind = "desc"
        \/ q.nmemb = SmallRange + 1 /\ q.pat.kind = "mod" /\ q.pat.m = 1 /\ q.pat.k = 2
        \/ q.nmemb = SmallRange + 3 /\ q.pat.kind = "mod" /\ q.pat.m = 3
             /\ q.pat.k = Scramble
        \/ q.nmemb = MaxN /\ q.pat.kind = "mod" /\ q.pat.m = 1 /\ q.pat.k = 1}

TwoInit ==
  \E p1 \in TwoParams, p2 \in {q \in TwoParams : q.nmemb <= SmallRange + 1},
     cp \in {2, NU_QUICKSORT_STACK_SIZE} :
       InitWith(<<p1, p2>>, cp)

SpecTwo == TwoInit /\ [][Next]_vars

(***************************************************************************)
(* The single-threaded program runs every call to completion.              *)
(***************************************************************************)
LiveParams ==
  {q \in ValidParams \cup InvalidParams :
     /\ \/ q.nmemb \in {1, 2, SmallRange - 1, SmallRange, MaxN} /\ q.pat.m = 1
        \/ q.nmemb \in {SmallRange + 3, MaxN - 1} /\ q.pat.m = 3
             /\ q.pat.k = Scramble
     /\ q.tagged = (q.compar = "desc")}

LiveInit ==
  \E p1 \in LiveParams \ {IdleParams}, cp \in Caps : InitWith(<<p1, IdleParams>>, cp)

FairSpec == LiveInit /\ [][Next]_vars /\ WF_vars(Next)

(***************************************************************************)
(* The arena allocator, src/arena.c.  Addresses are numbers, the arena     *)
(* argument of a call is "ptr" (the arena) or "null".                      *)
(***************************************************************************)
Buffers == {8, 13}

Sizes == (0..MaxSize) \cup {SIZE_MAX - 1, SIZE_MAX}

AlignedSizes == {0, 1, SIZE_MAX}

Alignments == {0, 2, 3}

nu_arena_init(a, ap, buffer, capacity) ==
  IF ap = "null" \/ buffer = NULL \/ capacity = 0
    THEN [arena |-> a, ret |-> FALSE]
    ELSE [arena |-> [buffer |-> buffer, capacity |-> capacity, used |-> 0],
          ret |-> TRUE]

nu_arena_alloc(a, ap, sz) ==
  IF ap = "null" \/ sz = 0
    THEN [arena |-> a, ret |-> NULL]
    ELSE IF Wrap(a.used + sz) > a.capacity
      THEN [arena |-> a, ret |-> NULL]
      ELSE [arena |-> [a EXCEPT !.used = Wrap(a.used + sz)],
            ret |-> Wrap(a.buffer + a.used)]

(* x & y on size_t, bit by bit.                                            *)
RECURSIVE BitAnd(_, _, _)
BitAnd(x, y, bits) ==
  IF bits = 0
    THEN 0
    ELSE (x % 2) * (y % 2) + 2 * BitAnd(x \div 2, y \div 2, bits - 1)

(* ~x on size_t.                                                           *)
BitNot(x) == SIZE_MAX - x

align_forward(ptr, alignment) ==
  BitAnd(Wrap(ptr + Wrap(alignment - 1)), BitNot(Wrap(alignment - 1)),
         WordBits)

(* Faulty variant: the padding in front of the aligned address is not      *)
(* counted.                                                                *)
nu_arena_alloc_aligned_unpadded(a, ap, sz, alignment) ==
  IF ap = "null" \/ sz = 0 \/ alignment = 0
    THEN [arena |-> a, ret |-> NULL]
    ELSE IF BitAnd(alignment, alignment - 1, WordBits) # 0
      THEN [arena |-> a, ret |-> NULL]
      ELSE [arena |-> [a EXCEPT !.used = Wrap(a.used + sz)],
            ret |-> align_forward(Wrap(a.buffer + a.used), alignment)]

nu_arena_alloc_aligned(a, ap, sz, alignment) ==
  IF ap = "null" \/ sz = 0 \/ alignment = 0
    THEN [arena |-> a, ret |-> NULL]
    ELSE IF BitAnd(alignment, alignment - 1, WordBits) # 0
      THEN [arena |-> a, ret |-> NULL]
      ELSE LET current == Wrap(a.buffer + a.used)
               aligned == align_forward(current, alignment)
               offset  == Wrap(aligned - a.buffer)
           IN  IF Wrap(offset + sz) > a.capacity
                 THEN [arena |-> a, ret |-> NULL]
                 ELSE [arena |-> [a EXCEPT !.used = Wrap(offset + sz)],
                       ret |-> aligned]

(* Faulty variant: the mark is left at its initial {0}.                    *)
nu_arena_get_mark_unset(a, ap) == [position |-> 0]

nu_arena_get_mark(a, ap) ==
  [position |-> IF ap = "ptr" THEN a.used ELSE 0]

(* Faulty variant: the position is not compared with the capacity.         *)
nu_arena_restore_unchecked(a, ap, mark) ==
  IF ap = "ptr" THEN [a EXCEPT !.used = mark.position] ELSE a

(* Faulty variant: a position above used is refused as well.               *)
nu_arena_restore_rewinding(a, ap, mark) ==
  IF ap = "ptr" /\ mark.position <= a.capacity /\ mark.position <= a.used
    THEN [a EXCEPT !.used = mark.position]
    ELSE a

nu_arena_restore(a, ap, mark) ==
  IF ap = "ptr" /\ mark.position <= a.capacity
    THEN [a EXCEPT !.used = mark.position]
    ELSE a

nu_arena_reset(a, ap) ==
  IF ap = "ptr" THEN [a EXCEPT !.used = 0] ELSE a

nu_arena_used(a, ap) == IF ap = "ptr" THEN a.used ELSE 0

nu_arena_available(a, ap) ==
  IF ap = "ptr" THEN Wrap(a.capacity - a.used) ELSE 0

(***************************************************************************)
(* A caller of the arena: after a successful nu_arena_init it allocates,   *)
(* takes marks, restores them (or a mark set by hand, as the tests do) and *)
(* resets, in any order, with the arena or with a null pointer.            *)
(***************************************************************************)
Called(op, ap, sz, mark) ==
  [op |-> op, ap |-> ap, size |-> sz, alignment |-> 0, mark |-> mark,
   before |-> arena.used]

ArenaInit ==
  /\ SortWith(<<IdleParams, IdleParams>>, NU_QUICKSORT_STACK_SIZE)
  /\ ErrorIdle
  /\ \E buffer \in Buffers, capacity \in 1..MaxCapacity :
       arena = nu_arena_init(NoCall.mark, "ptr", buffer, capacity).arena
  /\ ret = NULL
  /\ marks = {}
  /\ regions = << >>
  /\ acall = NoCall

ArenaAlloc(ap, sz) ==
  \E r \in {nu_arena_alloc(arena, ap, sz)} :
    /\ r.ret # NULL => Len(regions) < MaxRegions
    /\ arena' = r.arena
    /\ ret' = r.ret
    /\ regions' = IF r.ret # NULL
                    THEN Append(regions, [ptr |-> r.ret, size |-> sz])
                    ELSE regions
    /\ acall' = Called("alloc", ap, sz, NoCall.mark)
    /\ UNCHANGED <<sortVars, errorVars, marks>>

(* The regions are those of a run of nu_arena_alloc calls: an aligned     *)
(* allocation, which may leave padding in front of its block, starts a new *)
(* run.                                                                    *)
ArenaAllocAligned(ap, sz, alignment) ==
  \E r \in {nu_arena_alloc_aligned(arena, ap, sz, alignment)} :
    /\ arena' = r.arena
    /\ ret' = r.ret
    /\ regions' = IF r.ret # NULL THEN << >> ELSE regions
    /\ acall' = [Called("alloc_aligned", ap, sz, NoCall.mark)
                   EXCEPT !.alignment = alignment]
    /\ UNCHANGED <<sortVars, errorVars, marks>>

ArenaGetMark(ap) ==
  /\ Cardinality(marks) < MaxMarks
  /\ marks' = marks \cup {[position |-> nu_arena_get_mark(arena, ap).position,
                            taken |-> nu_arena_used(arena, ap),
                            from |-> ap]}
  /\ acall' = Called("get_mark", ap, 0, NoCall.mark)
  /\ UNCHANGED <<sortVars, errorVars, arena, ret, regions>>

HandSetMarks ==
  {[position |-> p, taken |-> 0, from |-> "hand"] :
     p \in {arena.capacity + 1, SIZE_MAX}}

ArenaRestore(ap) ==
  \E mark \in marks \cup HandSetMarks :
    /\ arena' = nu_arena_restore(arena, ap, mark)
    /\ regions' = IF arena'.used = arena.used THEN regions ELSE << >>
    /\ acall' = Called("restore", ap, 0, mark)
    /\ UNCHANGED <<sortVars, errorVars, ret, marks>>

ArenaReset(ap) ==
  /\ arena' = nu_arena_reset(arena, ap)
  /\ regions' = IF ap = "ptr" THEN << >> ELSE regions
  /\ acall' = Called("reset", ap, 0, NoCall.mark)
  /\ UNCHANGED <<sortVars, errorVars, ret, marks>>

ArenaNext ==
  \/ \E ap \in {"ptr", "null"}, sz \in Sizes : ArenaAlloc(ap, sz)
  \/ \E ap \in {"ptr", "null"} : ArenaGetMark(ap)
  \/ \E ap \in {"ptr", "null"} : ArenaRestore(ap)
  \/ \E ap \in {"ptr", "null"} : ArenaReset(ap)

SpecArena == ArenaInit /\ [][ArenaNext]_vars

(***************************************************************************)
(* The same caller with nu_arena_alloc_aligned among its calls.            *)
(***************************************************************************)
AlignedNext ==
  \/ ArenaNext
  \/ \E ap \in {"ptr", "null"}, sz \in AlignedSizes,
        alignment \in Alignments :
       ArenaAllocAligned(ap, sz, alignment)

SpecAligned == ArenaInit /\ [][AlignedNext]_vars

(***************************************************************************)
(* The error macros of src/error.h.                                        *)
(***************************************************************************)
(* The code written at an error site.                                      *)
SiteCode(line) == IF line % 2 = 1 THEN NU_ERR_GENERIC ELSE NU_ERR_IO

(* Formatted messages, by their length: short, exactly fitting the message *)
(* buffer, or longer than it.                                              *)
Messages == [len : {1, MESSAGE_SIZE - 1, MESSAGE_SIZE + 1}]

(* Source lines that hold an ERR, NU_ERROR, NU_FAIL or SET_ERROR.          *)
Sites == 1..MaxSites

vsnprintf(message) ==
  [len |-> IF message.len < MESSAGE_SIZE THEN message.len
                                         ELSE MESSAGE_SIZE - 1]

(* The value _nu_make_error_impl leaves in its static _err; it returns     *)
(* MakePtr, the address of that one object, whatever the calling line.     *)
nu_make_error_impl(code, line, message) ==
  [code |-> code, line |-> line, message |-> vsnprintf(message)]

ERR(code, line, message) ==
  [stored |-> nu_make_error_impl(code, line, message),
   res |-> nu_err(MakePtr)]

Deref(error, stored, copies) ==
  IF error.store = "_err" THEN stored ELSE copies[error.at]

(* Expressions handed to TRY: a success or an error made at some line.     *)
Exprs ==
  [is_err : {FALSE}, value : {NULL, 1}, code : {NU_OK}, line : {0},
   message : {NoMessage}]
    \cup [is_err : {TRUE}, value : {NULL}, code : {NU_OK}, line : Sites,
          message : Messages]

(* Evaluating an expression: the result, and the static _err after it.     *)
Eval(expr, stored) ==
  IF expr.is_err THEN ERR(SiteCode(expr.line), expr.line, expr.message)
                 ELSE [stored |-> stored, res |-> OK(expr.value)]

(* Faulty variant: the error is copied but the function does not return.   *)
TRY_without_return(result, site, stored, copies) ==
  [returns |-> FALSE, res |-> result,
   copies |-> IF result.is_err
                THEN [copies EXCEPT ![site] = Deref(result.ptr, stored, copies)]
                ELSE copies]

TRY(result, site, stored, copies) ==
  IF result.is_err
    THEN [returns |-> TRUE, res |-> nu_err(CopyPtr(site)),
          copies |-> [copies EXCEPT ![site] = Deref(result.ptr, stored, copies)]]
    ELSE [returns |-> FALSE, res |-> result, copies |-> copies]

NU_RETURN_IF_ERR(result, site, stored, copies) ==
  TRY(result, site, stored, copies)

(***************************************************************************)
(* One thread of control: the caller acts only while no function runs.     *)
(***************************************************************************)
TryReturned == Cardinality(TrySites) + 2

TryRunning == tryfn.pc \in 1..(Cardinality(TrySites) + 1)

DeferRunning == deferfn.pc \notin {"idle", "returned"}

Quiet == ~TryRunning /\ ~DeferRunning

(* The caller makes an error with ERR or NU_ERROR and keeps the result,    *)
(* or uses it at once and lets it go.                                      *)
CallerMakesError(line, message, keep) ==
  /\ Quiet
  /\ keep => ~held.is
  /\ \E e \in {ERR(SiteCode(line), line, message)} :
       /\ make_err' = e.stored
       /\ held' = IF keep
                    THEN [is |-> TRUE, res |-> e.res, made |-> e.stored]
                    ELSE held
  /\ UNCHANGED <<sortVars, arenaVars, err_copy, tryfn, deferfn>>

(* try_test_function generalised: each statement is                        *)
(* TRY(expr) or NU_RETURN_IF_ERR(expr), then return OK(NULL).  A call      *)
(* begins after the function called before it is over and its locals gone. *)
TryCall ==
  /\ Quiet
  /\ tryfn' = [IdleTry EXCEPT !.pc = 1]
  /\ deferfn' = IdleDefer
  /\ UNCHANGED <<sortVars, arenaVars, make_err, err_copy, held>>

TryStmt(expr, macro) ==
  /\ tryfn.pc \in TrySites
  /\ \E e \in {Eval(expr, make_err)} :
       \E t \in {IF macro = "TRY"
                   THEN TRY(e.res, tryfn.pc, e.stored, err_copy)
                   ELSE NU_RETURN_IF_ERR(e.res, tryfn.pc, e.stored, err_copy)} :
         /\ make_err' = e.stored
         /\ err_copy' = t.copies
         /\ tryfn' = [tryfn EXCEPT
              !.pc = IF t.returns THEN TryReturned ELSE tryfn.pc + 1,
              !.ran = tryfn.ran + 1,
              !.res = t.res,
              !.raised = IF expr.is_err /\ ~tryfn.raised.is
                           THEN [is |-> TRUE, at |-> tryfn.pc, err |-> e.stored]
                           ELSE tryfn.raised]
  /\ UNCHANGED <<sortVars, arenaVars, held, deferfn>>

TryReturnOk ==
  /\ tryfn.pc = Cardinality(TrySites) + 1
  /\ tryfn' = [tryfn EXCEPT !.pc = TryReturned, !.res = OK(NULL)]
  /\ UNCHANGED <<sortVars, arenaVars, make_err, err_copy, held, deferfn>>

(***************************************************************************)
(* DEFER { body } FINALLY { cleanup } RETURN.  The labels are those of the *)
(* macros; each statement of the body is an ordinary statement, a          *)
(* SET_ERROR or a SET_OK; the cleanup block makes no error.                *)
(***************************************************************************)
DEFER(d) == [d EXCEPT !.result = OK(NULL), !.pc = "_defer_body"]

SET_ERROR(d, made) == [d EXCEPT !.result = made.res, !.pc = "_defer_end"]

(* Faulty variant: the result is set but control stays in the body.        *)
SET_OK_without_goto(d, value) == [d EXCEPT !.result = OK(value)]

SET_OK(d, value) == [d EXCEPT !.result = OK(value), !.pc = "_defer_end"]

FINALLY(d) == [d EXCEPT !.pc = "_defer_cleanup"]

Executed(d, kind, made, value) ==
  [d EXCEPT !.at = deferfn.at + 1,
            !.ran = deferfn.ran + 1,
            !.set = IF kind = "none" \/ deferfn.set.kind # "none"
                      THEN deferfn.set
                      ELSE [kind |-> kind, at |-> deferfn.at, err |-> made,
                            value |-> value]]

InBody == deferfn.pc = "_defer_body" /\ deferfn.at \in BodySites

DeferCall ==
  /\ Quiet
  /\ deferfn' = DEFER([IdleDefer EXCEPT !.at = 1])
  /\ tryfn' = IdleTry
  /\ UNCHANGED <<sortVars, arenaVars, make_err, err_copy, held>>

DeferStmt ==
  /\ InBody
  /\ deferfn' = Executed(deferfn, "none", ZeroError, NULL)
  /\ UNCHANGED <<sortVars, arenaVars, make_err, err_copy, held, tryfn>>

DeferSetError(line, message) ==
  /\ InBody
  /\ \E e \in {ERR(SiteCode(line), line, message)} :
       /\ make_err' = e.stored
       /\ deferfn' = Executed(SET_ERROR(deferfn, e), "error", e.stored, NULL)
  /\ UNCHANGED <<sortVars, arenaVars, err_copy, held, tryfn>>

DeferSetOk(value) ==
  /\ InBody
  /\ deferfn' = Executed(SET_OK(deferfn, value), "ok", ZeroError, value)
  /\ UNCHANGED <<sortVars, arenaVars, make_err, err_copy, held, tryfn>>

(* The body fell through its end: goto _defer_cleanup.                     *)
DeferFinally ==
  /\ deferfn.pc = "_defer_body" /\ deferfn.at = Cardinality(BodySites) + 1
  /\ deferfn' = FINALLY(deferfn)
  /\ UNCHANGED <<sortVars, arenaVars, make_err, err_copy, held, tryfn>>

(* _defer_cleanup: goto _defer_end.                                        *)
DeferCleanupLabel ==
  /\ deferfn.pc = "_defer_cleanup"
  /\ deferfn' = [deferfn EXCEPT !.pc = "_defer_end"]
  /\ UNCHANGED <<sortVars, arenaVars, make_err, err_copy, held, tryfn>>

(* _defer_end: the cleanup block.                                          *)
DeferCleanup ==
  /\ deferfn.pc = "_defer_end"
  /\ deferfn' = [deferfn EXCEPT !.cleanups = deferfn.cleanups + 1,
                                !.pc = "RETURN"]
  /\ UNCHANGED <<sortVars, arenaVars, make_err, err_copy, held, tryfn>>

DeferReturn ==
  /\ deferfn.pc = "RETURN"
  /\ deferfn' = [deferfn EXCEPT
       !.pc = "returned",
       !.returned = IF deferfn.result.is_err
                      THEN Deref(deferfn.result.ptr, make_err, err_copy)
                      ELSE ZeroError]
  /\ UNCHANGED <<sortVars, arenaVars, make_err, err_copy, held, tryfn>>

ErrorInit ==
  /\ SortWith(<<IdleParams, IdleParams>>, NU_QUICKSORT_STACK_SIZE)
  /\ ArenaIdle
  /\ ErrorIdle

ErrorNext ==
  \/ \E line \in Sites, message \in Messages, keep \in BOOLEAN :
       CallerMakesError(line, message, keep)
  \/ TryCall
  \/ \E expr \in Exprs, macro \in {"TRY", "NU_RETURN_IF_ERR"} :
       TryStmt(expr, macro)
  \/ TryReturnOk
  \/ DeferCall
  \/ DeferStmt
  \/ \E line \in Sites, message \in Messages : DeferSetError(line, message)
  \/ \E value \in {NULL, 1} : DeferSetOk(value)
  \/ DeferFinally
  \/ DeferCleanupLabel
  \/ DeferCleanup
  \/ DeferReturn

SpecError == ErrorInit /\ [][ErrorNext]_vars

(***************************************************************************)
(* Vocabulary of the properties.                                           *)
(***************************************************************************)
Indices(c) == 0..(nmemb[c] - 1)

IsSorted(sa, sn, sc) ==
  \A x \in 0..(sn - 2) : Compare(sc, sa[x], sa[x + 1]) <= 0

Occurrences(oa, on, oe) == Cardinality({x \in 0..(on - 1) : oa[x] = oe})

IsPermutation(xa, xb, xn) ==
  \A y \in 0..(xn - 1) :
    /\ Occurrences(xa, xn, xa[y]) = Occurrences(xb, xn, xa[y])
    /\ Occurrences(xa, xn, xb[y]) = Occurrences(xb, xn, xb[y])

Returned(c) == pc[c] = "done"

(***************************************************************************)
(* C1: when every allocation of the call succeeded, after nu_sort returns  *)
(* from a call with valid parameters and n >= 2, every adjacent pair of    *)
(* the array is in order: compare(a[i], a[i+1]) <= 0.                      *)
(***************************************************************************)
C1_Sorted ==
  \A c \in Calls :
    (Returned(c) /\ ~Invalid(c) /\ hist[c].fails = 0)
      => IsSorted(arr[c], nmemb[c], compar[c])

C1_Witness ==
  /\ Returned(1) /\ ~Invalid(1) /\ hist[1].fails = 0
  /\ nmemb[1] = SmallRange
  /\ hist[1].round = 1
  /\ hist[1].parts > 0 /\ hist[1].allocs > 0 /\ hist[1].capHeaps = 0
  /\ ~IsSorted(hist[1].input, nmemb[1], compar[1])

(***************************************************************************)
(* C2: when every allocation of the call succeeded, the array after        *)
(* nu_sort holds every element value exactly as often as the array before. *)
(***************************************************************************)
C2_Permutation ==
  \A c \in Calls :
    (Returned(c) /\ hist[c].fails = 0)
      => IsPermutation(arr[c], hist[c].input, nmemb[c])

C2_Witness ==
  /\ Returned(1) /\ ~Invalid(1) /\ hist[1].fails = 0
  /\ hist[1].round = 1
  /\ arr[1] # hist[1].input
  /\ hist[1].allocs > 0
  /\ \E x, y \in Indices(1) : x # y /\ arr[1][x] = arr[1][y]

(***************************************************************************)
(* C3: a call with a null array, a null comparator, an element count of 0  *)
(* or 1, or an element size of 0 only ever returns: the array keeps the    *)
(* bytes it had at the call, the comparator is not invoked, no frame is    *)
(* pushed and NU_MALLOC is not called.                                     *)
(***************************************************************************)
C3_InvalidIsNoOp ==
  \A c \in Calls :
    (pc[c] # "idle"
       /\ (base[c] = "null" \/ compar[c] = "null" \/ nmemb[c] \in {0, 1}
             \/ size[c] = 0)) =>
      /\ pc[c] \in {"call", "done"}
      /\ arr[c] = hist[c].input
      /\ ~hist[c].compared
      /\ hist[c].pushed = 0
      /\ stack[c] = << >>
      /\ hist[c].allocs = 0 /\ hist[c].fails = 0
      /\ key[c] = NoBuf

C3_Witness ==
  /\ Returned(1)
  /\ base[1] = "ptr" /\ compar[1] = "asc" /\ size[1] = ElemSize
  /\ nmemb[1] = 1
  /\ arr[1] = hist[1].input

(* C3, second case: a call with a null array, a null comparator or size 0  *)
(* on 16 unsorted elements has returned.                                   *)
C3_WitnessNull ==
  /\ Returned(1)
  /\ (base[1] = "null" \/ compar[1] = "null" \/ size[1] = 0)
  /\ nmemb[1] = SmallRange
  /\ ~IsSorted(arr[1], nmemb[1], "asc")

(***************************************************************************)
(* C4: every call of nu_sort returns, whatever the array, the comparator,  *)
(* the capacity of the work-stack and the outcome of the allocations: the  *)
(* driver loop reaches the empty work-stack.                               *)
(***************************************************************************)
C4_Terminates ==
  \A c \in Calls : (pc[c] = "call") ~> (pc[c] = "done" /\ top(c) = 0)

C4_Witness ==
  /\ Returned(1) /\ ~Invalid(1)
  /\ hist[1].fails > 0
  /\ hist[1].capHeaps > 0
  /\ hist[1].pushed > 1
  /\ top(1) = 0

(***************************************************************************)
(* C5: the work-stack never holds more frames than its capacity            *)
(* NU_QUICKSORT_STACK_SIZE, so no frame is written at an index >= the      *)
(* capacity; a range whose children would not fit is heap-sorted instead.  *)
(***************************************************************************)
C5_StackBounded ==
  \A c \in Calls : Len(stack[c]) <= cap

C5_Witness ==
  /\ cap > 1
  /\ pc[1] = "loop"
  /\ hist[1].capHeaps > 0
  /\ hist[1].pushed > 2
  /\ top(1) > 0

(***************************************************************************)
(* C6: the depth limit of a call is 2*floor(log2(n)), set before the first *)
(* frame is pushed, and every frame on the work-stack has a depth <= that  *)
(* limit (a frame at the limit is not partitioned, so no deeper frame is   *)
(* ever pushed).                                                           *)
(***************************************************************************)
IsFloorLog2(n, k) == 2 ^ k <= n /\ n < 2 ^ (k + 1)

C6_DepthLimit ==
  \A c \in Calls :
    pc[c] \in {"loop", "ins"} =>
      /\ \E k \in 0..WordBits : IsFloorLog2(nmemb[c], k) /\ depth_limit[c] = 2 * k
      /\ \A x \in 1..Len(stack[c]) : stack[c][x].depth <= depth_limit[c]
      /\ hist[c].pushed >= 1

C6_Witness ==
  /\ Popped(1)
  /\ Top(1).depth = depth_limit[1]
  /\ ~(FrameLen(Top(1)) < SmallRange)
  /\ hist[1].depthHeaps = 0

(***************************************************************************)
(* C7: a failed allocation of insertion_sort leaves the array as it was,   *)
(* takes no buffer and only drops the frame: the driver loop goes on with  *)
(* the frames that remain.  A call on fewer than 16 elements whose single  *)
(* allocation failed returns with the array it was given.                  *)
(***************************************************************************)
C7_AllocFailure ==
  [][\A c \in Calls :
       /\ (hist'[c].fails = hist[c].fails + 1) =>
            /\ arr'[c] = arr[c]
            /\ key'[c] = NoBuf
            /\ pc'[c] = "loop"
            /\ stack'[c] = SubSeq(stack[c], 1, Len(stack[c]) - 1)
       /\ (pc'[c] = "done" /\ ~Invalid(c) /\ nmemb[c] < SmallRange
             /\ hist'[c].fails = 1) =>
            arr'[c] = hist'[c].input]_vars

C7_Witness ==
  /\ Returned(1)
  /\ hist[1].fails = 1 /\ hist[1].allocs > 0
  /\ hist[1].round = 1
  /\ ~IsSorted(arr[1], nmemb[1], compar[1])
  /\ arr[1] # hist[1].input

(* C7, second case: the single allocation of a call on 15 elements failed  *)
(* and the call returned its input.                                        *)
C7_WitnessSmall ==
  /\ Returned(1)
  /\ nmemb[1] = SmallRange - 1
  /\ hist[1].fails = 1
  /\ arr[1] = hist[1].input
  /\ ~IsSorted(arr[1], nmemb[1], compar[1])

(***************************************************************************)
(* C8 as claimed: nu_sort leaves every array that is already sorted under  *)
(* the comparator identical to its input, and sorting a second time gives  *)
(* the array of the first time.                                            *)
(***************************************************************************)
C8_Original ==
  \A c \in Calls :
    (Returned(c) /\ ~Invalid(c)) =>
      /\ IsSorted(hist[c].input, nmemb[c], compar[c]) => arr[c] = hist[c].input
      /\ hist[c].round = 2 => arr[c] = hist[c].first

(***************************************************************************)
(* C8 amended: nu_sort leaves an already sorted array sorted and equal to  *)
(* its input up to the order of elements that compare equal (at every      *)
(* index the element compares equal to the input's, and the array is a     *)
(* permutation of the input); it is identical to the input when it has     *)
(* fewer than 16 elements or when elements that compare equal are          *)
(* identical.  Hence a second nu_sort of a sorted result gives, index by    *)
(* index, elements that compare equal to those of the first.               *)
(***************************************************************************)
EqualMeansIdentical(ea, en, ec) ==
  \A x, y \in 0..(en - 1) : Compare(ec, ea[x], ea[y]) = 0 => ea[x] = ea[y]

SameUpToEquals(ea, eb, en, ec) ==
  /\ \A x \in 0..(en - 1) : Compare(ec, ea[x], eb[x]) = 0
  /\ IsPermutation(ea, eb, en)

C8_SortedInput ==
  \A c \in Calls :
    (Returned(c) /\ ~Invalid(c) /\ IsSorted(hist[c].input, nmemb[c], compar[c])) =>
      /\ SameUpToEquals(arr[c], hist[c].input, nmemb[c], compar[c])
      /\ (nmemb[c] < SmallRange
            \/ EqualMeansIdentical(hist[c].input, nmemb[c], compar[c]))
           => arr[c] = hist[c].input
      /\ hist[c].round = 2 =>
           SameUpToEquals(arr[c], hist[c].first, nmemb[c], compar[c])

C8_Witness ==
  /\ Returned(1) /\ ~Invalid(1)
  /\ hist[1].round = 2
  /\ nmemb[1] >= SmallRange
  /\ IsSorted(hist[1].input, nmemb[1], compar[1])
  /\ ~EqualMeansIdentical(hist[1].input, nmemb[1], compar[1])
  /\ arr[1] # hist[1].input
  /\ hist[1].parts > 0

(***************************************************************************)
(* C9 as claimed: with the work-stack capacity 8, nu_sort of the reverse   *)
(* sorted array of 100 elements (a[i] = 100 - i) ends with 1..100          *)
(* ascending and has taken the stack-capacity fallback at least once.      *)
(***************************************************************************)
IsRefCall(c) ==
  /\ cap = TEST_FLAGS
  /\ nmemb[c] = RefN
  /\ hist[c].round = 1
  /\ hist[c].input = [x \in 0..(RefN - 1) |-> Element(RefN - x, 0)]
  /\ hist[c].fails = 0

C9_Claim ==
  \A c \in Calls :
    (Returned(c) /\ IsRefCall(c)) =>
      /\ arr[c] = [x \in 0..(RefN - 1) |-> Element(x + 1, 0)]
      /\ hist[c].capHeaps >= 1

(* C9, first half only: the reference run ends with 1..100 ascending.      *)
C9_SortedPart ==
  \A c \in Calls :
    (Returned(c) /\ IsRefCall(c)) =>
      arr[c] = [x \in 0..(RefN - 1) |-> Element(x + 1, 0)]

(***************************************************************************)
(* C10: two calls on two arrays, interleaved in any order, each end with   *)
(* the array the call produces when it runs alone.                         *)
(***************************************************************************)
C10_Independent ==
  \A c \in Calls :
    (Returned(c) /\ ~Invalid(c) /\ hist[c].fails = 0) =>
      arr[c] = nu_sort(hist[c].input, nmemb[c], compar[c])

C10_Witness ==
  /\ Returned(1) /\ Returned(2)
  /\ ~Invalid(1) /\ ~Invalid(2)
  /\ hist[1].fails = 0 /\ hist[2].fails = 0
  /\ hist[1].round = 1 /\ hist[2].round = 1
  /\ nmemb[1] = MaxN /\ nmemb[2] = SmallRange + 1
  /\ arr[1] # hist[1].input /\ arr[2] # hist[2].input

(***************************************************************************)
(* C12 as claimed: the pivot of partition on [low, high] is the median of  *)
(* the first, the middle and the last element of the range.                *)
(***************************************************************************)
Median3(ea, eb, ec, order) ==
  IF (Compare(order, ea, eb) <= 0 /\ Compare(order, eb, ec) <= 0)
       \/ (Compare(order, ec, eb) <= 0 /\ Compare(order, eb, ea) <= 0)
    THEN eb
    ELSE IF (Compare(order, eb, ea) <= 0 /\ Compare(order, ea, ec) <= 0)
              \/ (Compare(order, ec, ea) <= 0 /\ Compare(order, ea, eb) <= 0)
      THEN ea
      ELSE ec

Midpoint(f) == f.low + (f.high - f.low) \div 2

C12_MedianOfThree ==
  \A c \in Calls :
    pc[c] = "partitioned" =>
      Compare(compar[c], arr[c][i[c]],
              Median3(hist[c].input[frame[c].low],
                      hist[c].input[Midpoint(frame[c])],
                      hist[c].input[frame[c].high], compar[c])) = 0

(***************************************************************************)
(* C20: partition on [low, high] returns p with low <= p <= high; the      *)
(* element at p is the pivot (the element that stood at the midpoint),     *)
(* every element of [low, p] compares <= it, every element of [p+1, high]  *)
(* compares > it, and the range holds the elements it held before, each as *)
(* often (the rest of the array is untouched).                             *)
(***************************************************************************)
RangeOccurrences(oa, low, high, oe) ==
  Cardinality({x \in low..high : oa[x] = oe})

C20_Partition ==
  \A c \in Calls :
    pc[c] = "partitioned" =>
      LET low == frame[c].low
          high == frame[c].high
          p == i[c]
          before == hist[c].input
      IN  /\ low <= p /\ p <= high
          /\ arr[c][p] = before[Midpoint(frame[c])]
          /\ \A x \in low..p : Compare(compar[c], arr[c][x], arr[c][p]) <= 0
          /\ \A x \in (p + 1)..high : Compare(compar[c], arr[c][x], arr[c][p]) > 0
          /\ \A x \in low..high :
               RangeOccurrences(arr[c], low, high, before[x])
                 = RangeOccurrences(before, low, high, before[x])
          /\ \A x \in Indices(c) \ (low..high) : arr[c][x] = before[x]

C20_Witness ==
  /\ pc[1] = "partitioned"
  /\ frame[1].low > 0 /\ frame[1].high < nmemb[1] - 1
  /\ frame[1].low < i[1] /\ i[1] < frame[1].high
  /\ arr[1] # hist[1].input
  /\ \E x \in frame[1].low..(i[1] - 1) :
       Compare(compar[1], arr[1][x], arr[1][i[1]]) = 0

(***************************************************************************)
(* C13: nu_arena_alloc returns NULL and leaves used unchanged whenever the *)
(* arena is NULL, the size is 0 or the size exceeds the remaining bytes    *)
(* (capacity - used); a request that fits succeeds.                        *)
(***************************************************************************)
Remaining == arena.capacity - acall.before

C13_AllocRefusal ==
  acall.op = "alloc" =>
    IF acall.ap = "null" \/ acall.size = 0 \/ acall.size > Remaining
      THEN ret = NULL /\ arena.used = acall.before
      ELSE ret # NULL

(***************************************************************************)
(* C14: a successful nu_arena_alloc returns buffer + (used before the      *)
(* call) and increases used by exactly size; the regions returned by       *)
(* successive allocations with no restore or reset in between are          *)
(* contiguous, pairwise non-overlapping and inside                         *)
(* [buffer, buffer + capacity).                                            *)
(***************************************************************************)
RegionsContiguous ==
  \A x \in 1..(Len(regions) - 1) :
    regions[x + 1].ptr = regions[x].ptr + regions[x].size

RegionsDisjoint ==
  \A x, y \in 1..Len(regions) :
    x < y => \/ regions[x].ptr + regions[x].size <= regions[y].ptr
             \/ regions[y].ptr + regions[y].size <= regions[x].ptr

RegionsInside ==
  \A x \in 1..Len(regions) :
    /\ arena.buffer <= regions[x].ptr
    /\ regions[x].ptr + regions[x].size <= arena.buffer + arena.capacity

C14_AllocRegions ==
  (acall.op = "alloc" /\ ret # NULL) =>
    /\ ret = arena.buffer + acall.before
    /\ arena.used = acall.before + acall.size
    /\ RegionsContiguous
    /\ RegionsDisjoint
    /\ RegionsInside

(***************************************************************************)
(* C15: nu_arena_restore with a mark taken by nu_arena_get_mark on the     *)
(* arena sets used back to the value it had when the mark was taken, and   *)
(* the next nu_arena_alloc that succeeds returns buffer + mark.position;   *)
(* marks nest: a newer and then an older mark can both be restored.        *)
(***************************************************************************)
RestoredMark(call) ==
  call.op = "restore" /\ call.ap = "ptr" /\ call.mark.from = "ptr"

C15_MarkRestore ==
  [][/\ RestoredMark(acall') => arena'.used = acall'.mark.taken
     /\ (RestoredMark(acall) /\ acall'.op = "alloc" /\ ret' # NULL)
          => ret' = arena.buffer + acall.mark.position]_vars

C15_Witness ==
  /\ RestoredMark(acall)
  /\ \E newer \in marks :
       /\ newer.from = "ptr"
       /\ newer.taken > acall.mark.taken
       /\ acall.before = newer.taken
  /\ acall.mark.taken > 0
  /\ arena.used = acall.mark.taken

(***************************************************************************)
(* C16: nu_arena_restore with a mark whose position is greater than the    *)
(* capacity, or with a NULL arena, leaves used at its previous value.      *)
(***************************************************************************)
C16_BadRestore ==
  (acall.op = "restore"
     /\ (acall.ap = "null" \/ acall.mark.position > arena.capacity))
    => arena.used = acall.before

C16_Witness ==
  /\ acall.op = "restore"
  /\ acall.ap = "ptr"
  /\ acall.mark.position > arena.capacity
  /\ acall.before > 0
  /\ arena.used = acall.before

(***************************************************************************)
(* C17: TRY(expr) and NU_RETURN_IF_ERR(expr) make the enclosing function   *)
(* return at once when expr is an error, the returned result being an      *)
(* error with the same code and message, and no statement after it         *)
(* executes; when expr is a success execution continues with the next      *)
(* statement.                                                              *)
(***************************************************************************)
TryResultError == Deref(tryfn.res.ptr, make_err, err_copy)

C17_Try ==
  /\ TryRunning => ~tryfn.raised.is /\ tryfn.ran = tryfn.pc - 1
  /\ (tryfn.pc = TryReturned /\ tryfn.raised.is) =>
       /\ tryfn.res.is_err
       /\ TryResultError.code = tryfn.raised.err.code
       /\ TryResultError.message = tryfn.raised.err.message
       /\ tryfn.ran = tryfn.raised.at
  /\ (tryfn.pc = TryReturned /\ ~tryfn.raised.is) =>
       /\ ~tryfn.res.is_err
       /\ tryfn.ran = Cardinality(TrySites)

C17_Witness ==
  /\ tryfn.pc = TryReturned
  /\ tryfn.raised.is
  /\ tryfn.raised.at = Cardinality(TrySites)
  /\ tryfn.res.is_err
  /\ TryResultError.code = NU_ERR_IO
  /\ TryResultError.message.len = MESSAGE_SIZE - 1
  /\ make_err # tryfn.raised.err

(***************************************************************************)
(* C18: every error creation site has its own static storage, so making   *)
(* an error at one site never changes the code, line or message of an      *)
(* error made earlier at a different site that the caller still holds.     *)
(***************************************************************************)
HeldError == Deref(held.res.ptr, make_err, err_copy)

C18_PerSiteStorage ==
  (held.is /\ HeldError # held.made) => HeldError.line = held.made.line

(***************************************************************************)
(* C19: in DEFER { body } FINALLY { cleanup } RETURN the cleanup block     *)
(* runs exactly once on every path (after SET_ERROR, after SET_OK, after   *)
(* the body falls through), no body statement after a SET_ERROR or SET_OK  *)
(* executes, and RETURN returns the error set by SET_ERROR, or a success   *)
(* otherwise.                                                              *)
(***************************************************************************)
C19_Defer ==
  /\ deferfn.pc \in {"_defer_body", "_defer_cleanup", "_defer_end"} =>
       deferfn.cleanups = 0
  /\ deferfn.pc \in {"RETURN", "returned"} => deferfn.cleanups = 1
  /\ deferfn.set.kind # "none" =>
       deferfn.ran = deferfn.set.at /\ deferfn.pc # "_defer_body"
  /\ deferfn.pc = "returned" =>
       /\ deferfn.set.kind = "error" =>
            deferfn.result.is_err /\ deferfn.returned = deferfn.set.err
       /\ deferfn.set.kind = "ok" =>
            deferfn.result = OK(deferfn.set.value)
       /\ deferfn.set.kind = "none" =>
            deferfn.result = OK(NULL) /\ deferfn.ran = Cardinality(BodySites)

C19_Witness ==
  /\ deferfn.pc = "returned"
  /\ deferfn.set.kind = "error"
  /\ deferfn.set.at \in 2..(Cardinality(BodySites) - 1)
  /\ deferfn.cleanups = 1
  /\ deferfn.result.is_err
  /\ deferfn.returned.code = NU_ERR_IO

(***************************************************************************)
(* C21: for each popped frame with low < high the driver chooses by this   *)
(* priority: length < 16 gives insertion sort, whatever the depth;         *)
(* otherwise depth >= depth limit gives heap sort; otherwise partition.    *)
(* A frame with low >= high is discarded.  So insertion sort is only       *)
(* invoked on ranges of 2 to 15 elements, heap sort and partition only on  *)
(* ranges of 16 or more elements.                                          *)
(***************************************************************************)
InsertionCalls(h) == h.allocs + h.fails

HeapsortCalls(h) == h.depthHeaps + h.capHeaps

C21_Dispatch ==
  [][\A c \in Calls :
       (Popped(c) /\ stack'[c] # stack[c]) =>
         LET f == Top(c)
             len == f.high - f.low + 1
             insertion ==
               InsertionCalls(hist'[c]) = InsertionCalls(hist[c]) + 1
             heap == hist'[c].depthHeaps = hist[c].depthHeaps + 1
             part == hist'[c].parts = hist[c].parts + 1
             none == /\ InsertionCalls(hist'[c]) = InsertionCalls(hist[c])
                     /\ HeapsortCalls(hist'[c]) = HeapsortCalls(hist[c])
                     /\ hist'[c].parts = hist[c].parts
         IN  /\ f.low >= f.high => none /\ arr'[c] = arr[c]
             /\ (f.low < f.high /\ len < 16) => insertion /\ ~heap /\ ~part
             /\ (f.low < f.high /\ len >= 16 /\ f.depth >= depth_limit[c])
                  => heap /\ ~insertion /\ ~part
             /\ (f.low < f.high /\ len >= 16 /\ f.depth < depth_limit[c])
                  => part /\ ~insertion /\ ~heap
             /\ insertion => len \in 2..15
             /\ (HeapsortCalls(hist'[c]) > HeapsortCalls(hist[c]) \/ part)
                  => len >= 16]_vars

C21_Witness ==
  /\ pc[1] = "ins"
  /\ frame[1].low < frame[1].high
  /\ SmallFrame(frame[1])
  /\ frame[1].depth >= depth_limit[1]
  /\ hist[1].parts > 0

(***************************************************************************)
(* C22 as claimed: after partitioning a frame the driver gives up the      *)
(* children and heap-sorts the whole range exactly when (frames on the     *)
(* stack) + (number of non-empty child ranges) exceeds the stack capacity; *)
(* when the sum is less than or equal to the capacity the children are     *)
(* pushed.                                                                 *)
(***************************************************************************)
PartitionedStep(c) == Popped(c) /\ hist'[c].parts = hist[c].parts + 1

PivotOf(c) == partition(arr[c], Top(c).low, Top(c).high, compar[c]).pivot

NonEmptyChildren(f, p) ==
  Cardinality({r \in {<<f.low, p - 1>>, <<p + 1, f.high>>} : r[1] <= r[2]})

GaveUpChildren(c) == hist'[c].capHeaps = hist[c].capHeaps + 1

PushedChildren(c) == stack'[c] = Pop(c) \o Children(Top(c), PivotOf(c))

C22_Original ==
  [][\A c \in Calls :
       PartitionedStep(c) =>
         LET sum == (top(c) - 1) + NonEmptyChildren(Top(c), PivotOf(c))
         IN  /\ GaveUpChildren(c) <=> sum > cap
             /\ sum <= cap => PushedChildren(c)]_vars

(***************************************************************************)
(* C22 amended: after partitioning a frame the driver gives up the         *)
(* children and heap-sorts the whole range exactly when (frames on the     *)
(* stack) + (number of non-empty child ranges) is greater than or equal to *)
(* the stack capacity; when the sum is less than the capacity the children *)
(* are pushed.                                                             *)
(***************************************************************************)
C22_Fallback ==
  [][\A c \in Calls :
       PartitionedStep(c) =>
         LET sum == (top(c) - 1) + NonEmptyChildren(Top(c), PivotOf(c))
         IN  /\ GaveUpChildren(c) <=> sum >= cap
             /\ GaveUpChildren(c) =>
                  /\ stack'[c] = Pop(c)
                  /\ arr'[c] = heapsort(partition(arr[c], Top(c).low,
                                                  Top(c).high, compar[c]).a,
                                        Top(c).low, Top(c).high, compar[c])
             /\ sum < cap => PushedChildren(c)]_vars

(* The first frame of a call with capacity 2 was given up with no other    *)
(* frame on the stack: its two children would have filled the stack        *)
(* exactly.                                                                *)
C22_Witness ==
  /\ pc[1] = "loop"
  /\ cap = 2
  /\ hist[1].parts = 1
  /\ hist[1].capHeaps = 1
  /\ hist[1].pushed = 1
  /\ top(1) = 0
  /\ IsSorted(arr[1], nmemb[1], compar[1])

(***************************************************************************)
(* C23: processing a frame by insertion sort or by heap sort pushes no     *)
(* frame (the stack ends one frame shorter); processing a frame            *)
(* [low, high] of depth d by partition with pivot index p, when the        *)
(* children fit, pushes exactly the non-empty ranges among [low, p-1] and  *)
(* [p+1, high], each with depth d+1, and nothing else.                     *)
(***************************************************************************)
IsNonEmpty(g) == g.low <= g.high

NonEmptyRanges(f, p) ==
  SelectSeq(<<Mk(f.low, p - 1, f.depth + 1), Mk(p + 1, f.high, f.depth + 1)>>,
            IsNonEmpty)

C23_Pushes ==
  [][\A c \in Calls :
       /\ (Popped(c) /\ stack'[c] # stack[c]) =>
            /\ (InsertionCalls(hist'[c]) > InsertionCalls(hist[c])
                  \/ HeapsortCalls(hist'[c]) > HeapsortCalls(hist[c])) =>
                 /\ stack'[c] = SubSeq(stack[c], 1, Len(stack[c]) - 1)
                 /\ hist'[c].pushed = hist[c].pushed
            /\ (PartitionedStep(c) /\ ~GaveUpChildren(c)) =>
                 /\ stack'[c] = SubSeq(stack[c], 1, Len(stack[c]) - 1)
                                  \o NonEmptyRanges(Top(c), PivotOf(c))
                 /\ hist'[c].pushed =
                      hist[c].pushed + Len(NonEmptyRanges(Top(c), PivotOf(c)))
       /\ pc[c] = "ins" => stack'[c] = stack[c]]_vars

C23_Witness ==
  /\ pc[1] = "loop"
  /\ top(1) >= 2
  /\ Top(1).depth >= 2
  /\ stack[1][top(1) - 1].depth = Top(1).depth
  /\ stack[1][top(1) - 1].high + 2 = Top(1).low
  /\ InsertionCalls(hist[1]) > 0
  /\ hist[1].pushed = 2 * hist[1].parts


(***************************************************************************)
(* partition run statement by statement on a range [low, high]: frame      *)
(* holds the range, i is the store index, scan the loop index j.           *)
(***************************************************************************)
(* Faulty variant: the scan starts with the range as it stands, the        *)
(* midpoint element is not moved to high.                                  *)
PartitionEntryNoSwap(a, low, high) == [a |-> a, i |-> low]

PartitionEntry(a, low, high) ==
  [a |-> swap_bytes(a, low + (high - low) \div 2, high), i |-> low]

PartitionBegin(c) ==
  /\ pc[c] = "partition"
  /\ \E st \in {PartitionEntry(arr[c], frame[c].low, frame[c].high)} :
       /\ arr' = [arr EXCEPT ![c] = st.a]
       /\ i' = [i EXCEPT ![c] = st.i]
  /\ scan' = [scan EXCEPT ![c] = frame[c].low]
  /\ pc' = [pc EXCEPT ![c] = "scan"]
  /\ UNCHANGED <<arenaVars, errorVars, hstart, hend, cap, base, compar, size,
                 nmemb, depth_limit, stack, frame, key, hist>>

PartitionScan(c) ==
  /\ pc[c] = "scan"
  /\ scan[c] < frame[c].high
  /\ \E st \in {PartitionStep([a |-> arr[c], i |-> i[c]], scan[c],
                              frame[c].high, compar[c])} :
       /\ arr' = [arr EXCEPT ![c] = st.a]
       /\ i' = [i EXCEPT ![c] = st.i]
  /\ scan' = [scan EXCEPT ![c] = scan[c] + 1]
  /\ hist' = Note(c, "compared", TRUE)
  /\ UNCHANGED <<arenaVars, errorVars, hstart, hend, cap, pc, base, compar,
                 size, nmemb, depth_limit, stack, frame, key>>

PartitionReturn(c) ==
  /\ pc[c] = "scan"
  /\ scan[c] >= frame[c].high
  /\ arr' = [arr EXCEPT ![c] = swap_bytes(arr[c], i[c], frame[c].high)]
  /\ pc' = [pc EXCEPT ![c] = "partitioned"]
  /\ hist' = Note(c, "parts", hist[c].parts + 1)
  /\ UNCHANGED <<arenaVars, errorVars, scan, hstart, hend, cap, base, compar,
                 size, nmemb, depth_limit, stack, frame, i, key>>

ScanNext ==
  \E c \in Calls : PartitionBegin(c) \/ PartitionScan(c) \/ PartitionReturn(c)

SpecScan == PartitionInit /\ [][ScanNext]_vars

C25_AllEqual ==
  [][\A c \in Calls :
       LET f == Top(c)
           n == nmemb[c]
           two_logs == 2 * (CHOOSE k \in 0..n : 2 ^ k <= n /\ n < 2 ^ (k + 1))
           AllEqual(a, lo, hi) ==
             \A x \in lo..hi : \A y \in lo..hi : Compare(compar[c], a[x], a[y]) = 0
       IN  /\ PartitionedStep(c) /\ AllEqual(arr[c], f.low, f.high) =>
                /\ PivotOf(c) = f.high
                /\ \/ GaveUpChildren(c)
                   \/ stack'[c] = Pop(c) \o <<Mk(f.low, f.high - 1, f.depth + 1)>>
           /\ (/\ pc[c] = "loop"
               /\ AllEqual(hist[c].input, 0, n - 1)
               /\ n - two_logs >= SmallRange
               /\ hist'[c].capHeaps = 0) =>
                /\ hist'[c].depthHeaps = hist[c].depthHeaps + 1 =>
                     /\ hist[c].parts = two_logs
                     /\ hist[c].depthHeaps = 0
                     /\ FrameLen(f) = n - two_logs
                /\ pc'[c] = "done" =>
                     /\ hist[c].parts = two_logs
                     /\ hist[c].depthHeaps = 1
                     /\ InsertionCalls(hist[c]) = 0
                     /\ IsSorted(arr[c], n, compar[c])
                     /\ IsPermutation(arr[c], hist[c].input, n)]_vars

C25_Witness ==
  /\ pc[1] = "done"
  /\ nmemb[1] - 2 * floor_log2(nmemb[1]) >= SmallRange
  /\ \A x \in Indices(1) : hist[1].input[x][1] = hist[1].input[0][1]
  /\ \A x \in Indices(1) : hist[1].input[x][2] = x
  /\ cap = 2
  /\ hist[1].capHeaps = 0
  /\ hist[1].parts = 2 * floor_log2(nmemb[1])
  /\ hist[1].depthHeaps = 1
  /\ arr[1] # hist[1].input


(***************************************************************************)
(* C26 as claimed: sorting the permutation of 0..n-1 in which every pair   *)
(* of neighbours is exchanged ends with 0..n-1 ascending, and during the   *)
(* run the depth-limit branch heap-sorts at least one frame (a frame of 16 *)
(* or more elements whose depth has reached 2*floor(log2(n))).             *)
(***************************************************************************)
C26_Claim ==
  \A c \in Calls :
    (/\ Returned(c)
     /\ nmemb[c] = RefN /\ compar[c] = "asc" /\ hist[c].round = 1
     /\ hist[c].input = MakeArray(RefSwapParams.pat, RefN, FALSE)
     /\ hist[c].fails = 0) =>
      /\ arr[c] = [x \in 0..(RefN - 1) |-> Element(x, 0)]
      /\ hist[c].depthHeaps >= 1

(* C26, first half only: the run ends with 0..n-1 ascending.               *)
C26_SortedPart ==
  \A c \in Calls :
    (/\ Returned(c)
     /\ nmemb[c] = RefN /\ compar[c] = "asc" /\ hist[c].round = 1
     /\ hist[c].input = MakeArray(RefSwapParams.pat, RefN, FALSE)
     /\ hist[c].fails = 0) =>
      arr[c] = [x \in 0..(RefN - 1) |-> Element(x, 0)]


(***************************************************************************)
(* heapsort run loop iteration by loop iteration on a range [low, high]:   *)
(* frame holds the range, hstart and hend are the indices of the two       *)
(* loops.  On a range of one element count - 2 wraps, the build loop       *)
(* starts at SIZE_MAX / 2 and runs down to 0 (every heapify finds          *)
(* 2 * root + 1 > end and does nothing); such ranges are run for two       *)
(* arrays, the longer ranges for all of them.                              *)
(***************************************************************************)
HeapsortInit ==
  \E q \in PartitionParams :
    \E low \in 0..(q.nmemb - 1) :
      \E high \in low..(q.nmemb - 1) :
        /\ low = high => /\ q.nmemb \in {1, 3} /\ low = q.nmemb \div 2
                         /\ q.pat.kind = "desc" /\ q.compar = "asc"
        /\ ArenaIdle
        /\ ErrorIdle
        /\ cap = NU_QUICKSORT_STACK_SIZE
        /\ pc = <<"heapsort", "idle">>
        /\ base = <<q.base, IdleParams.base>>
        /\ compar = <<q.compar, IdleParams.compar>>
        /\ size = <<q.size, IdleParams.size>>
        /\ nmemb = <<q.nmemb, IdleParams.nmemb>>
        /\ arr = <<MakeArray(q.pat, q.nmemb, q.tagged), << >> >>
        /\ depth_limit = [c \in Calls |-> 0]
        /\ stack = [c \in Calls |-> << >>]
        /\ frame = <<Mk(low, high, 0), NoFrame>>
        /\ i = [c \in Calls |-> 0]
        /\ key = [c \in Calls |-> NoBuf]
        /\ scan = [c \in Calls |-> 0]
        /\ hstart = [c \in Calls |-> 0]
        /\ hend = [c \in Calls |-> 0]
        /\ hist = <<NewHist(MakeArray(q.pat, q.nmemb, q.tagged), 1, << >>),
                    NewHist(<< >>, 1, << >>)>>

HeapsortEnter(c) ==
  /\ pc[c] = "heapsort"
  /\ hstart' = [hstart EXCEPT ![c] =
                  Wrap(Wrap(frame[c].high - frame[c].low + 1) - 2) \div 2]
  /\ pc' = [pc EXCEPT ![c] = "build"]
  /\ UNCHANGED <<arenaVars, errorVars, scan, hend, cap, base, compar, size,
                 nmemb, arr, depth_limit, stack, frame, i, key, hist>>

HeapsortBuild(c) ==
  /\ pc[c] = "build"
  /\ hstart[c] # SIZE_MAX
  /\ arr' = [arr EXCEPT ![c] =
               heapify(arr[c], frame[c].low, hstart[c],
                       Wrap(Wrap(frame[c].high - frame[c].low + 1) - 1),
                       compar[c])]
  /\ hstart' = [hstart EXCEPT ![c] = Wrap(hstart[c] - 1)]
  /\ UNCHANGED <<arenaVars, errorVars, scan, hend, cap, pc, base, compar, size,
                 nmemb, depth_limit, stack, frame, i, key, hist>>

HeapsortBuilt(c) ==
  /\ pc[c] = "build"
  /\ hstart[c] = SIZE_MAX
  /\ hend' = [hend EXCEPT ![c] =
                Wrap(Wrap(frame[c].high - frame[c].low + 1) - 1)]
  /\ pc' = [pc EXCEPT ![c] = "extract"]
  /\ UNCHANGED <<arenaVars, errorVars, scan, hstart, cap, base, compar, size,
                 nmemb, arr, depth_limit, stack, frame, i, key, hist>>

HeapsortExtract(c) ==
  /\ pc[c] = "extract"
  /\ hend[c] > 0
  /\ arr' = [arr EXCEPT ![c] =
               heapify(swap_bytes(arr[c], frame[c].low, frame[c].low + hend[c]),
                       frame[c].low, 0, hend[c] - 1, compar[c])]
  /\ hend' = [hend EXCEPT ![c] = hend[c] - 1]
  /\ UNCHANGED <<arenaVars, errorVars, scan, hstart, cap, pc, base, compar,
                 size, nmemb, depth_limit, stack, frame, i, key, hist>>

HeapsortReturn(c) ==
  /\ pc[c] = "extract"
  /\ hend[c] = 0
  /\ pc' = [pc EXCEPT ![c] = "heapsorted"]
  /\ hist' = Note(c, "compared", TRUE)
  /\ UNCHANGED <<arenaVars, errorVars, scan, hstart, hend, cap, base, compar,
                 size, nmemb, arr, depth_limit, stack, frame, i, key>>

HeapNext ==
  \E c \in Calls :
    \/ HeapsortEnter(c)
    \/ HeapsortBuild(c)
    \/ HeapsortBuilt(c)
    \/ HeapsortExtract(c)
    \/ HeapsortReturn(c)

SpecHeap == HeapsortInit /\ [][HeapNext]_vars /\ WF_vars(HeapNext)


(***************************************************************************)
(* C27: heapsort on a non-empty range [low, high], of one element or more, *)
(* the indices computed modulo 2^WordBits, returns; all through the call   *)
(* the elements outside [low, high] are the ones of the entry array, the   *)
(* range holds the elements it held on entry, each as often, and no buffer *)
(* is allocated; at the return the range is in ascending order of the      *)
(* comparator and the array is the one the heapsort of the driver yields.  *)
(***************************************************************************)
C27_Heapsort ==
  /\ [](\A c \in Calls :
          pc[c] \in {"heapsort", "build", "extract", "heapsorted"} =>
            LET low == frame[c].low
                high == frame[c].high
                entry == hist[c].input
            IN  /\ \A x \in Indices(c) \ (low..high) : arr[c][x] = entry[x]
                /\ \A x \in low..high :
                     RangeOccurrences(arr[c], low, high, entry[x])
                       = RangeOccurrences(entry, low, high, entry[x])
                /\ key[c] = NoBuf /\ InsertionCalls(hist[c]) = 0
                /\ pc[c] = "heapsorted" =>
                     /\ \A x \in low..(high - 1) :
                          Compare(compar[c], arr[c][x], arr[c][x + 1]) <= 0
                     /\ arr[c] = heapsort(entry, low, high, compar[c]))
  /\ \A c \in Calls : (pc[c] = "heapsort") ~> (pc[c] = "heapsorted")

C27_Witness ==
  /\ pc[1] = "heapsorted"
  /\ frame[1].low > 0 /\ frame[1].high < nmemb[1] - 1
  /\ FrameLen(frame[1]) >= 4
  /\ arr[1] # hist[1].input
  /\ \E x \in frame[1].low..(frame[1].high - 1) :
       Compare(compar[1], arr[1][x], arr[1][x + 1]) = 0

(***************************************************************************)
(* C28: inside heapsort, with the elements numbered from 0 at low and      *)
(* count = high - low + 1: when the build loop has ended every node k is   *)
(* >= its children 2k+1 and 2k+2; after the extraction step with boundary  *)
(* end the positions end..count-1 hold the count-end largest elements in   *)
(* ascending order and the positions 0..end-1 form a max-heap again.  In   *)
(* the states between two iterations of the extraction loop the heap is    *)
(* 0..hend and the extracted elements are hend+1..count-1.                 *)
(***************************************************************************)
C28_HeapInvariant ==
  \A c \in Calls :
    pc[c] \in {"extract", "heapsorted"} =>
      LET low == frame[c].low
          count == frame[c].high - frame[c].low + 1
          Ge(x, y) == Compare(compar[c], arr[c][low + x], arr[c][low + y]) >= 0
      IN  /\ hend[c] <= count - 1
          /\ \A k \in 0..hend[c] :
               /\ 2 * k + 1 <= hend[c] => Ge(k, 2 * k + 1)
               /\ 2 * k + 2 <= hend[c] => Ge(k, 2 * k + 2)
          /\ \A x \in (hend[c] + 1)..(count - 1) : \A y \in 0..x : Ge(x, y)

C28_Witness ==
  /\ pc[1] = "extract"
  /\ FrameLen(frame[1]) >= 5
  /\ hend[1] >= 3 /\ hend[1] < frame[1].high - frame[1].low
  /\ frame[1].low > 0
  /\ arr[1] # hist[1].input
  /\ \E x \in 1..hend[1] :
       Compare(compar[1], arr[1][frame[1].low + x], arr[1][frame[1].low + x - 1]) > 0


(***************************************************************************)
(* The driver entered with one frame [low, high] of fewer than 16 elements *)
(* on its stack: insertion_sort runs on a range of an array, the rest of   *)
(* the array around it.                                                    *)
(***************************************************************************)
InsertionInit ==
  \E q \in PartitionParams :
    \E low \in 0..(q.nmemb - 1) :
      \E high \in (low + 1)..(q.nmemb - 1) :
        /\ ArenaIdle
        /\ ErrorIdle
        /\ cap = NU_QUICKSORT_STACK_SIZE
        /\ pc = <<"loop", "idle">>
        /\ base = <<q.base, IdleParams.base>>
        /\ compar = <<q.compar, IdleParams.compar>>
        /\ size = <<q.size, IdleParams.size>>
        /\ nmemb = <<q.nmemb, IdleParams.nmemb>>
        /\ arr = <<MakeArray(q.pat, q.nmemb, q.tagged), << >> >>
        /\ depth_limit = [c \in Calls |-> 0]
        /\ stack = << <<Mk(low, high, 0)>>, << >> >>
        /\ frame = [c \in Calls |-> NoFrame]
        /\ i = [c \in Calls |-> 0]
        /\ key = [c \in Calls |-> NoBuf]
        /\ scan = [c \in Calls |-> 0]
        /\ hstart = [c \in Calls |-> 0]
        /\ hend = [c \in Calls |-> 0]
        /\ hist = <<NewHist(MakeArray(q.pat, q.nmemb, q.tagged), 1, << >>),
                    NewHist(<< >>, 1, << >>)>>

InsertionNext ==
  \E c \in Calls :
    \/ InsertionAllocFail(c)
    \/ InsertionAllocOk(c)
    \/ InsertionIter(c)
    \/ InsertionFree(c)
    \/ LoopExit(c)

SpecInsertion == InsertionInit /\ [][InsertionNext]_vars

(***************************************************************************)
(* C29: inside insertion_sort on [low, high], the allocation succeeded,    *)
(* after the iteration for position p (the loop index stands at p + 1) the *)
(* range [low, p] is in order and holds the elements it held on entry,     *)
(* each as often, and [p+1, high] and the rest of the array are as on      *)
(* entry.  The iteration for position p moves one slot right exactly the   *)
(* elements of [low, p-1] that compare > the element at p and leaves the   *)
(* others in place, so elements that compare equal stay in the order of    *)
(* their entry positions (the second byte of an element).                  *)
(***************************************************************************)
C29_InsertionLoop ==
  [][\A c \in Calls :
       pc[c] = "ins" =>
         LET low == frame[c].low
             high == frame[c].high
             p == i[c] - 1
             entry == hist[c].input
         IN  /\ low <= p /\ p <= high
             /\ \A x \in low..(p - 1) :
                  Compare(compar[c], arr[c][x], arr[c][x + 1]) <= 0
             /\ \A x \in low..p :
                  RangeOccurrences(arr[c], low, p, entry[x])
                    = RangeOccurrences(entry, low, p, entry[x])
             /\ \A x \in Indices(c) \ (low..p) : arr[c][x] = entry[x]
             /\ \A x \in low..p : \A y \in (x + 1)..p :
                  Compare(compar[c], arr[c][x], arr[c][y]) = 0
                    => arr[c][x][2] < arr[c][y][2]
             /\ p < high =>
                  /\ i'[c] = i[c] + 1
                  /\ \A x \in low..p :
                       IF Compare(compar[c], arr[c][x], arr[c][p + 1]) > 0
                         THEN arr'[c][x + 1] = arr[c][x]
                         ELSE arr'[c][x] = arr[c][x]]_vars

C29_Witness ==
  /\ pc[1] = "ins"
  /\ frame[1].low > 0 /\ frame[1].high < nmemb[1] - 1
  /\ i[1] >= frame[1].low + 3 /\ i[1] <= frame[1].high
  /\ \E x \in frame[1].low..(i[1] - 2) :
       /\ Compare(compar[1], arr[1][x], arr[1][x + 1]) = 0
       /\ arr[1][x] # hist[1].input[x]


(***************************************************************************)
(* C30: during a nu_sort call the buffers outstanding (allocated and not   *)
(* yet released) are none, or one while insertion_sort runs with its       *)
(* buffer.  A successful allocation starts an insertion_sort with no       *)
(* buffer outstanding before; that insertion_sort is left only through the *)
(* release of its buffer; a release happens only there; a failed           *)
(* allocation is followed by no release; the steps that partition or       *)
(* heap-sort a frame allocate and release nothing; no buffer is            *)
(* outstanding when nu_sort has returned.                                  *)
(***************************************************************************)
C30_OneBuffer ==
  [][\A c \in Calls :
       LET before == hist[c]
           after == hist'[c]
           outstanding == before.allocs - before.frees
       IN  /\ outstanding \in {0, 1}
           /\ (outstanding = 1) = (pc[c] = "ins")
           /\ (outstanding = 1) = (key[c] # NoBuf)
           /\ pc[c] = "done" => outstanding = 0
           /\ pc'[c] = "done" => after.allocs = after.frees /\ key'[c] = NoBuf
           /\ after.allocs = before.allocs + 1 =>
                outstanding = 0 /\ pc'[c] = "ins" /\ after.frees = before.frees
           /\ (pc[c] = "ins" /\ pc'[c] # "ins") =>
                after.frees = before.frees + 1 /\ key'[c] = NoBuf
           /\ after.frees = before.frees + 1 =>
                pc[c] = "ins" /\ pc'[c] = "loop" /\ after.allocs = before.allocs
           /\ after.fails = before.fails + 1 =>
                /\ after.allocs = before.allocs /\ after.frees = before.frees
                /\ key'[c] = NoBuf /\ pc'[c] = "loop"
           /\ (\/ after.parts # before.parts
               \/ HeapsortCalls(after) # HeapsortCalls(before)) =>
                \/ after.round # before.round
                \/ /\ after.allocs = before.allocs /\ after.frees = before.frees
                   /\ key[c] = NoBuf /\ key'[c] = NoBuf]_vars

C30_Witness ==
  /\ pc[1] = "done"
  /\ key[1] = NoBuf
  /\ hist[1].allocs >= 2 /\ hist[1].frees = hist[1].allocs
  /\ hist[1].fails >= 1
  /\ hist[1].parts >= 2


(***************************************************************************)
(* C31: at the start of every iteration of the driver loop of a call whose *)
(* allocations all succeeded, every index that no frame of the work-stack  *)
(* covers holds its final sorted value (an element that stands at that     *)
(* index in every sorted arrangement of the input: fewer than x+1 elements *)
(* of the input compare < it and more than x compare <= it), and for every *)
(* frame [low, high] of the stack every element left of low compares <=    *)
(* every element of the frame and every element of the frame compares <=   *)
(* every element right of high.                                            *)
(***************************************************************************)
C31_Pending ==
  \A c \in Calls :
    (pc[c] = "loop" /\ hist[c].fails = 0) =>
      LET n == nmemb[c]
          entry == hist[c].input
          Le(ea, eb) == Compare(compar[c], ea, eb) <= 0
          Covered(x) ==
            \E k \in 1..Len(stack[c]) : stack[c][k].low <= x /\ x <= stack[c][k].high
      IN  /\ \A x \in 0..(n - 1) :
               ~Covered(x) =>
                 /\ Cardinality({y \in 0..(n - 1) : ~Le(arr[c][x], entry[y])}) <= x
                 /\ Cardinality({y \in 0..(n - 1) : Le(entry[y], arr[c][x])}) > x
          /\ \A k \in 1..Len(stack[c]) :
               \A y \in stack[c][k].low..stack[c][k].high :
                 /\ \A x \in 0..(stack[c][k].low - 1) : Le(arr[c][x], arr[c][y])
                 /\ \A z \in (stack[c][k].high + 1)..(n - 1) : Le(arr[c][y], arr[c][z])

C31_Witness ==
  /\ pc[1] = "loop"
  /\ hist[1].fails = 0
  /\ Len(stack[1]) >= 2
  /\ stack[1][1].high + 1 < stack[1][2].low
  /\ stack[1][1].low > 0
  /\ hist[1].parts >= 2
  /\ hist[1].allocs >= 1
  /\ arr[1] # hist[1].input


(***************************************************************************)
(* C32: at every point of a nu_sort call every frame on the work-stack has *)
(* 0 <= low <= high <= n-1, and the index ranges of any two frames on the  *)
(* stack have no index in common.                                          *)
(***************************************************************************)
C32_Frames ==
  \A c \in Calls :
    /\ \A k \in 1..Len(stack[c]) :
         /\ 0 <= stack[c][k].low
         /\ stack[c][k].low <= stack[c][k].high
         /\ stack[c][k].high <= nmemb[c] - 1
    /\ \A k \in 1..Len(stack[c]) : \A m \in (k + 1)..Len(stack[c]) :
         \/ stack[c][k].high < stack[c][m].low
         \/ stack[c][m].high < stack[c][k].low

C32_Witness ==
  /\ Len(stack[1]) >= 3
  /\ \E k \in 1..Len(stack[1]) : stack[1][k].low = stack[1][k].high
  /\ \E k \in 1..Len(stack[1]) : stack[1][k].high - stack[1][k].low >= 2
  /\ hist[1].parts >= 2


(***************************************************************************)
(* C33: at every point of a nu_sort call the frame at position k of the    *)
(* work-stack (1 at the bottom) has depth >= k-1, the number of frames is  *)
(* at most the depth of the topmost frame plus 1 and at most               *)
(* 2*floor(log2(n)) + 1, and in a build whose stack capacity is at least   *)
(* 2*floor(log2(n)) + 2 the stack-capacity fallback is never taken.        *)
(***************************************************************************)
C33_StackDepth ==
  \A c \in Calls :
    nmemb[c] >= 1 =>
      LET two_logs ==
            2 * (CHOOSE k \in 0..nmemb[c] : 2 ^ k <= nmemb[c] /\ nmemb[c] < 2 ^ (k + 1))
      IN  /\ \A k \in 1..Len(stack[c]) : stack[c][k].depth >= k - 1
          /\ Len(stack[c]) > 0 =>
               Len(stack[c]) <= stack[c][Len(stack[c])].depth + 1
          /\ Len(stack[c]) <= two_logs + 1
          /\ cap >= two_logs + 2 => hist[c].capHeaps = 0

C33_Witness ==
  /\ pc[1] = "loop"
  /\ cap >= 2 * floor_log2(nmemb[1]) + 2
  /\ Len(stack[1]) >= 3
  /\ stack[1][Len(stack[1])].depth = Len(stack[1]) - 1
  /\ stack[1][1].depth = 1
  /\ hist[1].parts >= 3


(***************************************************************************)
(* The indices of the array elements that the inner loops read, write or   *)
(* hand to the comparator.  ShiftTouched: the while loop of insertion_sort *)
(* from position j (elem[j-1] is read when j > low holds, elem[j] is       *)
(* written).  HeapifyTouched: heapify on the heap hb+0 .. hb+end from node *)
(* root (elem[root] and elem[child], elem[child+1] when child + 1 <= end,  *)
(* the two swapped elements).                                              *)
(***************************************************************************)
RECURSIVE ShiftTouched(_, _, _, _, _)
ShiftTouched(a, j, low, k, cmp) ==
  IF j > low
    THEN IF Compare(cmp, a[j - 1], k) > 0
           THEN {j - 1, j} \cup ShiftTouched(a, j - 1, low, k, cmp)
           ELSE {j - 1, j}
    ELSE {j}

RECURSIVE HeapifyTouched(_, _, _, _, _)
HeapifyTouched(a, hb, root, end, cmp) ==
  IF Wrap(2 * root + 1) <= end
    THEN LET child == Wrap(2 * root + 1)
             s1 == IF Compare(cmp, a[hb + root], a[hb + child]) < 0
                     THEN child ELSE root
             second == Wrap(child + 1) <= end
             s2 == IF second /\ Compare(cmp, a[hb + s1], a[hb + Wrap(child + 1)]) < 0
                     THEN Wrap(child + 1) ELSE s1
             here == {hb + root, hb + child}
                       \cup (IF second THEN {hb + Wrap(child + 1)} ELSE {})
         IN  IF s2 = root
               THEN here
               ELSE here \cup HeapifyTouched(swap_bytes(a, hb + root, hb + s2),
                                             hb, s2, end, cmp)
    ELSE {}

(***************************************************************************)
(* The sort calls together with partition, heapsort and insertion_sort run *)
(* alone, statement by statement, on the ranges of small arrays.           *)
(***************************************************************************)
FramesInit == Init \/ PartitionInit \/ HeapsortInit \/ InsertionInit

FramesNext == Next \/ ScanNext \/ HeapNext

SpecFrames == FramesInit /\ [][FramesNext]_vars


(***************************************************************************)
(* C34 as claimed: while a frame [low, high] is processed by partition,    *)
(* insertion_sort or heapsort every element read, written or handed to the *)
(* comparator has its index inside [low, high] and inside [0, n-1]; and no *)
(* index computation underflows: pivot-1 is formed only when pivot > low,  *)
(* j-1 only when j > low, and (no index computation being excepted) the    *)
(* loop index start of heapsort is never taken below 0 by start--.         *)
(***************************************************************************)
C34_Original ==
  [][\A c \in Calls :
       LET low == frame[c].low
           high == frame[c].high
           count == high - low + 1
           InRange(S) == S \subseteq (low..high) /\ S \subseteq (0..(nmemb[c] - 1))
       IN  /\ pc[c] = "partition" => InRange({low + (high - low) \div 2, high})
           /\ pc[c] = "scan" => InRange({i[c], high} \cup
                                        (IF scan[c] < high THEN {scan[c]} ELSE {}))
           /\ (pc[c] = "build" /\ hstart[c] # SIZE_MAX) =>
                InRange(HeapifyTouched(arr[c], low, hstart[c], Wrap(count - 1),
                                       compar[c]))
           /\ (pc[c] = "extract" /\ hend[c] > 0) =>
                InRange({low, low + hend[c]} \cup
                        HeapifyTouched(swap_bytes(arr[c], low, low + hend[c]),
                                       low, 0, hend[c] - 1, compar[c]))
           /\ (pc[c] = "ins" /\ i[c] <= high) =>
                InRange({i[c]} \cup
                        ShiftTouched(arr[c], i[c], low, arr[c][i[c]], compar[c]))
           /\ (PartitionedStep(c) /\ ~GaveUpChildren(c)) =>
                \A k \in top(c)..Len(stack'[c]) :
                  stack'[c][k].high = PivotOf(c) - 1 => PivotOf(c) > Top(c).low
           /\ (pc[c] = "build" /\ hstart[c] # SIZE_MAX) => hstart[c] - 1 >= 0]_vars

(***************************************************************************)
(* C34: while a frame [low, high] is processed by partition,               *)
(* insertion_sort or heapsort every element read, written or handed to the *)
(* comparator has its index inside [low, high] and inside [0, n-1];        *)
(* pivot-1 is formed only when pivot > low and j-1 only when j > low.  The *)
(* loop index start of heapsort does go below 0: start-- takes it from 0   *)
(* to SIZE_MAX, which ends the build loop, and on a range of one element   *)
(* (count - 2) / 2 starts it at SIZE_MAX / 2; no element is accessed at a  *)
(* wrapped index (heapify from a node beyond the heap touches nothing, the *)
(* step that finds start = SIZE_MAX leaves the array alone).               *)
(***************************************************************************)
C34_Accesses ==
  [][\A c \in Calls :
       LET low == frame[c].low
           high == frame[c].high
           count == high - low + 1
           InRange(S) == S \subseteq (low..high) /\ S \subseteq (0..(nmemb[c] - 1))
       IN  /\ pc[c] = "partition" => InRange({low + (high - low) \div 2, high})
           /\ pc[c] = "scan" => InRange({i[c], high} \cup
                                        (IF scan[c] < high THEN {scan[c]} ELSE {}))
           /\ (pc[c] = "build" /\ hstart[c] # SIZE_MAX) =>
                /\ InRange(HeapifyTouched(arr[c], low, hstart[c], Wrap(count - 1),
                                          compar[c]))
                /\ hstart[c] > count - 1 =>
                     HeapifyTouched(arr[c], low, hstart[c], Wrap(count - 1),
                                    compar[c]) = {}
                /\ hstart'[c] = IF hstart[c] = 0 THEN SIZE_MAX ELSE hstart[c] - 1
           /\ (pc[c] = "build" /\ hstart[c] = SIZE_MAX) => arr'[c] = arr[c]
           /\ (pc[c] = "extract" /\ hend[c] > 0) =>
                InRange({low, low + hend[c]} \cup
                        HeapifyTouched(swap_bytes(arr[c], low, low + hend[c]),
                                       low, 0, hend[c] - 1, compar[c]))
           /\ (pc[c] = "ins" /\ i[c] <= high) =>
                InRange({i[c]} \cup
                        ShiftTouched(arr[c], i[c], low, arr[c][i[c]], compar[c]))
           /\ (PartitionedStep(c) /\ ~GaveUpChildren(c)) =>
                \A k \in top(c)..Len(stack'[c]) :
                  stack'[c][k].high = PivotOf(c) - 1 => PivotOf(c) > Top(c).low]_vars

C34_Witness ==
  /\ pc[1] = "build"
  /\ hstart[1] = SIZE_MAX
  /\ FrameLen(frame[1]) >= 4
  /\ frame[1].low > 0
  /\ arr[1] # hist[1].input


(***************************************************************************)
(* C35: whatever allocations of the temporary buffer failed during a       *)
(* nu_sort call, the array after the call holds every element value        *)
(* exactly as often as the array before it, and every range of indices     *)
(* that has no index in common with a frame handed to a failing            *)
(* insertion_sort is in order (every pair of neighbours of which neither   *)
(* lies in such a frame is in order).                                      *)
(***************************************************************************)
C35_FailurePatterns ==
  \A c \in Calls :
    (Returned(c) /\ ~Invalid(c)) =>
      LET Failed(x) == \E f \in hist[c].failed : f.low <= x /\ x <= f.high
      IN  /\ IsPermutation(arr[c], hist[c].input, nmemb[c])
          /\ Cardinality(hist[c].failed) = hist[c].fails
          /\ \A x \in 0..(nmemb[c] - 2) :
               (~Failed(x) /\ ~Failed(x + 1)) =>
                 Compare(compar[c], arr[c][x], arr[c][x + 1]) <= 0

C35_Witness ==
  /\ Returned(1) /\ ~Invalid(1)
  /\ hist[1].fails >= 2
  /\ hist[1].allocs >= 1
  /\ hist[1].parts >= 2
  /\ arr[1] # hist[1].input
  /\ ~IsSorted(arr[1], nmemb[1], compar[1])


(***************************************************************************)
(* C36: after a successful nu_arena_init, every sequence of nu_arena_alloc,*)
(* nu_arena_alloc_aligned, nu_arena_get_mark, nu_arena_restore and         *)
(* nu_arena_reset calls, with valid or invalid arguments, keeps            *)
(* 0 <= used <= capacity, and nu_arena_available equals capacity - used.   *)
(***************************************************************************)
C36_UsedWithinCapacity ==
  /\ 0 <= arena.used
  /\ arena.used <= arena.capacity
  /\ nu_arena_available(arena, "ptr") = arena.capacity - arena.used
  /\ nu_arena_used(arena, "ptr") + nu_arena_available(arena, "ptr")
       = arena.capacity

C36_Witness ==
  /\ acall.op = "alloc_aligned"
  /\ ret # NULL
  /\ ret > arena.buffer + acall.before
  /\ arena.used = arena.capacity
  /\ nu_arena_available(arena, "ptr") = 0
  /\ \E mark \in marks : mark.from = "ptr" /\ mark.position < arena.used


(***************************************************************************)
(* C37: nu_arena_restore only rewinds: after any call to it used is less   *)
(* than or equal to used before the call, also when the mark is stale      *)
(* (its position is above the current used).                               *)
(***************************************************************************)
C37_OnlyRewinds ==
  acall.op = "restore" => arena.used <= acall.before

(***************************************************************************)
(* C37, amended: nu_arena_restore rewinds when the position of the mark is *)
(* at most the current used; a stale mark whose position is above the      *)
(* current used and within the capacity moves used up to that position, so *)
(* that bytes released by a reset or by an older restore count as          *)
(* allocated again; in every case used ends at the position of the mark or *)
(* at its previous value.                                                  *)
(***************************************************************************)
StaleMark(call) ==
  /\ call.op = "restore"
  /\ call.ap = "ptr"
  /\ call.mark.position > call.before
  /\ call.mark.position <= arena.capacity

C37_RewindsUnlessStale ==
  acall.op = "restore" =>
    /\ acall.mark.position <= acall.before => arena.used <= acall.before
    /\ StaleMark(acall) => arena.used = acall.mark.position
    /\ arena.used \in {acall.before, acall.mark.position}

C37_Witness ==
  /\ StaleMark(acall)
  /\ acall.mark.from = "ptr"
  /\ acall.mark.taken = acall.mark.position
  /\ arena.used > acall.before


(***************************************************************************)
(* C38: with size_t arithmetic modulo 2^w, from a state with               *)
(* used <= capacity and for every size in [1, 2^w - 1], nu_arena_alloc and *)
(* nu_arena_alloc_aligned succeed only if the request fits in the          *)
(* remaining bytes: no request whose used + size (or offset + size) wraps  *)
(* around is granted, and used never decreases by an allocation.           *)
(***************************************************************************)
Granted(op) ==
  acall.op = op /\ acall.ap = "ptr" /\ acall.size >= 1 /\ ret # NULL

C38_NoWrappedGrant ==
  /\ Granted("alloc") =>
       /\ acall.before + acall.size <= arena.capacity
       /\ arena.used >= acall.before
  /\ Granted("alloc_aligned") =>
       /\ (ret - arena.buffer) + acall.size <= arena.capacity
       /\ arena.used >= acall.before

=============================================================================
